---------------------------- MODULE Spec2Model ----------------------------
(***************************************************************************)
(* Day-cycle economic engine and tier-progression state machine of the     *)
(* hair-removal salon simulator (Tools/salon_simulator.py).                *)
(*                                                                         *)
(* Conventions of the translation                                          *)
(*  - StaffRank and WealthLevel are their Enum values 0..4.                *)
(*  - Rates and multipliers that the source writes as decimal floats are   *)
(*    kept as exact integers: success rates and review multipliers in      *)
(*    hundredths, tool time reductions in hundredths, loan daily rates in  *)
(*    thousandths.  Python's int() truncates towards zero; Trunc does the  *)
(*    same.  Every float expression of the source was compared with its    *)
(*    exact counterpart over the whole range of its arguments; the only    *)
(*    one that differs is the attraction change (FloatShort below).        *)
(*  - random.* calls are inputs: one record of draws per simulated day.    *)
(***************************************************************************)
EXTENDS Integers, Sequences, FiniteSets, TLC

VARIABLES
    grade, money, cumulative_review, star_level, attraction_level, day,
    staff, loans, active_ads,
    total_revenue, total_expenses, customers_served, tool_grade,
    use_loans, avg_treatment_time, ad_config,
    result, horizon

state == <<grade, money, cumulative_review, star_level, attraction_level, day,
           staff, loans, active_ads,
           total_revenue, total_expenses, customers_served, tool_grade>>

config == <<use_loans, avg_treatment_time, ad_config>>

vars == <<state, config, result, horizon>>

---------------------------------------------------------------------------
(* Bounds of the exploration *)

MaxDays == 2
MaxEarlyDays == 4
MaxLoanPrincipal == 12
MaxLoanTerm == 4
MaxExtraCalls == 1
MaxAdDays == 5
MaxPayment == 5
MaxKey == 9

---------------------------------------------------------------------------
(* Arithmetic helpers *)

Abs(x) == IF x < 0 THEN -x ELSE x

Min(a, b) == IF a <= b THEN a ELSE b

Max(a, b) == IF a >= b THEN a ELSE b

\* int(n / d) of Python for d > 0: truncation towards zero
Trunc(n, d) == IF n >= 0 THEN n \div d ELSE -((-n) \div d)

RECURSIVE GCD(_, _)
GCD(a, b) == IF b = 0 THEN a ELSE GCD(b, a % b)

\* s[lo] + .. + s[hi]
RECURSIVE SumRange(_, _, _)
SumRange(s, lo, hi) ==
    IF lo > hi THEN 0
    ELSE IF lo = hi THEN s[lo]
    ELSE LET mid == (lo + hi) \div 2
         IN SumRange(s, lo, mid) + SumRange(s, mid + 1, hi)

SumSeq(s) == SumRange(s, 1, Len(s))

\* the elements of s that satisfy Test, in the order of s
SelectInOrder(s, Test(_)) == SelectSeq(s, Test)

\* s without the elements at the indices in idx
RemoveAt(s, idx) ==
    LET keep == {i \in 1..Len(s) : i \notin idx}
        F[i \in 0..Len(s)] ==
            IF i = 0 THEN <<>>
            ELSE IF i \in keep THEN Append(F[i - 1], s[i]) ELSE F[i - 1]
    IN F[Len(s)]

---------------------------------------------------------------------------
(* Static tables *)

STUDENT == 0
NEWBIE == 1
REGULAR == 2
VETERAN == 3
PRO == 4

POOREST == 0
POOR == 1
NORMAL == 2
RICH == 3
RICHEST == 4

MAX_GRADE == 7

MAX_ACTIVE_LOANS == 3

OPERATING_TIME == 450

\* (tier, plan price, budget min, budget max, star requirement), lowest first
CUSTOMER_RANKS == <<
    <<"Poorest", 30, 15, 23, 1>>,    <<"Poorest", 30, 23, 30, 2>>,
    <<"Poorest", 40, 30, 37, 3>>,    <<"Poorest", 40, 37, 45, 4>>,
    <<"Poorest", 50, 45, 52, 5>>,    <<"Poorest", 50, 52, 60, 6>>,
    <<"Poor", 80, 60, 70, 7>>,       <<"Poor", 80, 70, 80, 8>>,
    <<"Poor", 80, 80, 90, 9>>,       <<"Poor", 70, 90, 100, 10>>,
    <<"Poor", 70, 100, 110, 11>>,    <<"Poor", 70, 110, 120, 12>>,
    <<"Normal", 100, 120, 130, 13>>, <<"Normal", 100, 130, 140, 14>>,
    <<"Normal", 120, 140, 150, 15>>, <<"Normal", 120, 150, 160, 16>>,
    <<"Normal", 135, 160, 180, 17>>, <<"Normal", 135, 180, 210, 18>>,
    <<"Rich", 240, 210, 240, 19>>,   <<"Rich", 240, 240, 270, 20>>,
    <<"Rich", 200, 270, 300, 21>>,   <<"Rich", 200, 300, 330, 22>>,
    <<"Rich", 320, 330, 350, 23>>,   <<"Rich", 320, 350, 410, 24>>,
    <<"Richest", 470, 410, 470, 25>>, <<"Richest", 470, 470, 520, 26>>,
    <<"Richest", 470, 520, 580, 27>>, <<"Richest", 560, 580, 630, 28>>,
    <<"Richest", 560, 630, 690, 29>>, <<"Richest", 560, 690, 750, 30>> >>

TIER_GRADE_REQUIREMENT ==
    [Poorest |-> 1, Poor |-> 2, Normal |-> 3, Rich |-> 4, Richest |-> 5]

\* the tier_to_wealth dictionary of simulate_day
tier_to_wealth ==
    [Poorest |-> POOREST, Poor |-> POOR, Normal |-> NORMAL, Rich |-> RICH,
     Richest |-> RICHEST]

\* STAFF_SUCCESS_RATE[wealth + 1][rank + 1], in hundredths
STAFF_SUCCESS_RATE == <<
    <<100, 100, 100, 100, 100>>,
    <<80, 100, 100, 100, 100>>,
    <<60, 80, 100, 100, 100>>,
    <<40, 60, 80, 100, 100>>,
    <<20, 40, 60, 80, 100>> >>

\* STAFF_REVIEW_MULTIPLIER[rank + 1], in hundredths
STAFF_REVIEW_MULTIPLIER == <<90, 95, 100, 105, 110>>

\* STAFF_DAILY_SALARY[rank + 1]
STAFF_DAILY_SALARY == <<150, 200, 300, 450, 700>>

GRADE_CONFIG == <<
    [upgrade_cost |-> 0, beds |-> 1, staff_slots |-> 4, rent |-> 100,
     required_stars |-> 1, attraction_cap |-> 100, max_customers |-> 18],
    [upgrade_cost |-> 5000, beds |-> 2, staff_slots |-> 5, rent |-> 300,
     required_stars |-> 5, attraction_cap |-> 250, max_customers |-> 36],
    [upgrade_cost |-> 20000, beds |-> 4, staff_slots |-> 7, rent |-> 800,
     required_stars |-> 10, attraction_cap |-> 400, max_customers |-> 79],
    [upgrade_cost |-> 80000, beds |-> 6, staff_slots |-> 9, rent |-> 1500,
     required_stars |-> 15, attraction_cap |-> 600, max_customers |-> 124],
    [upgrade_cost |-> 250000, beds |-> 8, staff_slots |-> 11, rent |-> 2500,
     required_stars |-> 20, attraction_cap |-> 800, max_customers |-> 172],
    [upgrade_cost |-> 800000, beds |-> 10, staff_slots |-> 13, rent |-> 4000,
     required_stars |-> 25, attraction_cap |-> 1200, max_customers |-> 286],
    [upgrade_cost |-> 2000000, beds |-> 10, staff_slots |-> 13, rent |-> 6000,
     required_stars |-> 30, attraction_cap |-> 1200, max_customers |-> 286] >>

\* REVIEW_THRESHOLDS[stars] = cumulative review needed for that star level
REVIEW_THRESHOLDS == <<
    0, 180, 430, 770, 1200, 1800, 2500, 3400, 4500, 5600,
    7100, 9000, 11200, 13800, 16400, 20000, 24500, 29800, 35700, 42700,
    52500, 63000, 75000, 90000, 107000, 129000, 154000, 182000, 214000,
    250000 >>

\* AD_CONFIG in dictionary order
AD_CONFIG == <<
    [name |-> "none", cost |-> 0, attraction_boost |-> 0, duration |-> 0,
     decay |-> 0, star_req |-> 1],
    [name |-> "free_sns", cost |-> 0, attraction_boost |-> 5, duration |-> 3,
     decay |-> 1, star_req |-> 1],
    [name |-> "flyer", cost |-> 1000, attraction_boost |-> 15, duration |-> 5,
     decay |-> 3, star_req |-> 4],
    [name |-> "paid_sns", cost |-> 3000, attraction_boost |-> 30,
     duration |-> 4, decay |-> 5, star_req |-> 7],
    [name |-> "magazine", cost |-> 8000, attraction_boost |-> 50,
     duration |-> 5, decay |-> 8, star_req |-> 10],
    [name |-> "train_poster", cost |-> 15000, attraction_boost |-> 80,
     duration |-> 5, decay |-> 12, star_req |-> 14],
    [name |-> "tv_cm", cost |-> 60000, attraction_boost |-> 150,
     duration |-> 5, decay |-> 25, star_req |-> 17],
    [name |-> "billboard", cost |-> 120000, attraction_boost |-> 200,
     duration |-> 5, decay |-> 30, star_req |-> 20],
    [name |-> "video_ad", cost |-> 40000, attraction_boost |-> 100,
     duration |-> 4, decay |-> 20, star_req |-> 24],
    [name |-> "influencer", cost |-> 200000, attraction_boost |-> 250,
     duration |-> 5, decay |-> 40, star_req |-> 27] >>

\* the best time_reduction (hundredths) of the tools of TOOL_CONFIG, as
\* (star_req, time_reduction) pairs in dictionary order
TOOL_CONFIG == <<
    <<1, 0>>, <<1, 0>>, <<3, 0>>, <<6, 5>>, <<7, 10>>, <<9, 10>>, <<11, 10>>,
    <<13, 20>>, <<16, 20>>, <<19, 30>>, <<21, 30>>, <<23, 40>>, <<24, 45>>,
    <<27, 60>> >>

\* ITEM_CONFIG in dictionary order, restricted to the two types drawn by
\* simulate_day
ITEM_CONFIG == <<
    [type |-> "reception", cost |-> 10, price |-> 15, review_bonus |-> 0, star_req |-> 1],
    [type |-> "reception", cost |-> 10, price |-> 0, review_bonus |-> 5, star_req |-> 4],
    [type |-> "reception", cost |-> 20, price |-> 35, review_bonus |-> 0, star_req |-> 7],
    [type |-> "reception", cost |-> 30, price |-> 0, review_bonus |-> 3, star_req |-> 10],
    [type |-> "reception", cost |-> 100, price |-> 0, review_bonus |-> 10, star_req |-> 14],
    [type |-> "reception", cost |-> 140, price |-> 200, review_bonus |-> 0, star_req |-> 17],
    [type |-> "reception", cost |-> 25, price |-> 45, review_bonus |-> 0, star_req |-> 20],
    [type |-> "reception", cost |-> 60, price |-> 120, review_bonus |-> 0, star_req |-> 23],
    [type |-> "reception", cost |-> 300, price |-> 0, review_bonus |-> 20, star_req |-> 26],
    [type |-> "reception", cost |-> 150, price |-> 300, review_bonus |-> 0, star_req |-> 28],
    [type |-> "register", cost |-> 10, price |-> 25, review_bonus |-> 0, star_req |-> 1],
    [type |-> "register", cost |-> 5, price |-> 0, review_bonus |-> 2, star_req |-> 1],
    [type |-> "register", cost |-> 10, price |-> 0, review_bonus |-> 2, star_req |-> 2],
    [type |-> "register", cost |-> 15, price |-> 35, review_bonus |-> 0, star_req |-> 3],
    [type |-> "register", cost |-> 20, price |-> 45, review_bonus |-> 0, star_req |-> 4],
    [type |-> "register", cost |-> 10, price |-> 0, review_bonus |-> 2, star_req |-> 5],
    [type |-> "register", cost |-> 35, price |-> 75, review_bonus |-> 0, star_req |-> 7],
    [type |-> "register", cost |-> 15, price |-> 0, review_bonus |-> 3, star_req |-> 8],
    [type |-> "register", cost |-> 25, price |-> 60, review_bonus |-> 0, star_req |-> 11],
    [type |-> "register", cost |-> 40, price |-> 0, review_bonus |-> 10, star_req |-> 12],
    [type |-> "register", cost |-> 50, price |-> 140, review_bonus |-> 0, star_req |-> 13],
    [type |-> "register", cost |-> 40, price |-> 120, review_bonus |-> 0, star_req |-> 15],
    [type |-> "register", cost |-> 30, price |-> 0, review_bonus |-> 4, star_req |-> 17],
    [type |-> "register", cost |-> 250, price |-> 400, review_bonus |-> 0, star_req |-> 19],
    [type |-> "register", cost |-> 200, price |-> 0, review_bonus |-> 20, star_req |-> 20],
    [type |-> "register", cost |-> 100, price |-> 0, review_bonus |-> 6, star_req |-> 22],
    [type |-> "register", cost |-> 300, price |-> 0, review_bonus |-> 30, star_req |-> 25],
    [type |-> "register", cost |-> 300, price |-> 500, review_bonus |-> 0, star_req |-> 26],
    [type |-> "treatment", cost |-> 20, price |-> 0, review_bonus |-> 0, star_req |-> 1],
    [type |-> "treatment", cost |-> 50, price |-> 0, review_bonus |-> 0, star_req |-> 6],
    [type |-> "treatment", cost |-> 30, price |-> 0, review_bonus |-> 0, star_req |-> 9],
    [type |-> "treatment", cost |-> 100, price |-> 0, review_bonus |-> 0, star_req |-> 14] >>

\* LOAN_CONFIG in dictionary order; daily_rate in thousandths
LOAN_CONFIG == <<
    [name |-> "starter", max_amount |-> 10000, daily_rate |-> 5,
     term_days |-> 5, grade_req |-> 1],
    [name |-> "business", max_amount |-> 50000, daily_rate |-> 5,
     term_days |-> 10, grade_req |-> 2],
    [name |-> "expert", max_amount |-> 150000, daily_rate |-> 10,
     term_days |-> 8, grade_req |-> 3],
    [name |-> "premium", max_amount |-> 500000, daily_rate |-> 12,
     term_days |-> 10, grade_req |-> 4],
    [name |-> "elite", max_amount |-> 2000000, daily_rate |-> 15,
     term_days |-> 10, grade_req |-> 5] >>

\* the staff_rank_by_grade dictionary of try_upgrade
staff_rank_by_grade == <<STUDENT, STUDENT, NEWBIE, REGULAR, VETERAN, PRO, PRO>>

---------------------------------------------------------------------------
(* Staff *)

\* Staff.get_success_rate: a missing (wealth, rank) key answers 0.5
get_success_rate(rank, customer_wealth) ==
    IF customer_wealth \in 0..4 /\ rank \in 0..4
    THEN STAFF_SUCCESS_RATE[customer_wealth + 1][rank + 1]
    ELSE 50

get_review_multiplier(rank) == STAFF_REVIEW_MULTIPLIER[rank + 1]

get_daily_salary(rank) == STAFF_DAILY_SALARY[rank + 1]

---------------------------------------------------------------------------
(* Loan *)

\* Loan(...) followed by __post_init__
NewLoan(loan_type, principal, daily_rate, term_days) ==
    [loan_type |-> loan_type, principal |-> principal,
     daily_rate |-> daily_rate, term_days |-> term_days,
     remaining_principal |-> principal, remaining_days |-> term_days,
     accrued_interest |-> 0]

\* int(remaining_principal * daily_rate)
DailyInterest(l) == Trunc(l.remaining_principal * l.daily_rate, 1000)

accrue_daily_interest(l) ==
    [l EXCEPT !.accrued_interest = @ + DailyInterest(l)]

\* faulty variant of get_minimum_payment: the accrued interest is not part of
\* the minimum
PrincipalShareOnly(l) ==
    IF l.remaining_days <= 0
    THEN l.remaining_principal
    ELSE l.remaining_principal \div l.remaining_days

get_minimum_payment(l) ==
    IF l.remaining_days <= 0
    THEN l.remaining_principal + l.accrued_interest
    ELSE (l.remaining_principal \div l.remaining_days) + l.accrued_interest

\* faulty variant of is_paid_off: no loan ever counts as paid off
NeverPaidOff(l) == FALSE

is_paid_off(l) == l.remaining_principal <= 0

\* faulty variant of ActualPayment: an amount below the minimum is accepted
AmountAsOffered(min_payment, amount) ==
    IF amount > 0 THEN amount ELSE min_payment

\* the payment chosen by make_payment from the minimum and the amount offered
ActualPayment(min_payment, amount) ==
    IF amount > 0 THEN Max(min_payment, amount) ELSE min_payment

\* faulty variant of make_payment: the payment goes to the principal and the
\* accrued interest is carried to the next day
InterestCarried(l, amount) ==
    IF l.remaining_principal <= 0
    THEN [loan |-> l, paid |-> 0]
    ELSE
      LET a == accrue_daily_interest(l)
          actual_payment == ActualPayment(get_minimum_payment(a), amount)
          principal_paid == Min(actual_payment, a.remaining_principal)
      IN [loan |-> [a EXCEPT !.remaining_principal = @ - principal_paid,
                             !.remaining_days = @ - 1],
          paid |-> principal_paid]

\* faulty variant of make_payment: a paid-off loan is served like any other
PayRegardless(l, amount) ==
    LET a == accrue_daily_interest(l)
        actual_payment == ActualPayment(get_minimum_payment(a), amount)
        interest_paid == IF actual_payment >= a.accrued_interest
                         THEN a.accrued_interest ELSE actual_payment
        rest == IF actual_payment >= a.accrued_interest
                THEN actual_payment - a.accrued_interest ELSE 0
        principal_paid == Min(rest, a.remaining_principal)
    IN [loan |-> [a EXCEPT !.accrued_interest = @ - interest_paid,
                           !.remaining_principal = @ - principal_paid,
                           !.remaining_days = @ - 1],
        paid |-> interest_paid + principal_paid]

\* Loan.make_payment: the loan afterwards and the value returned
make_payment(l, amount) ==
    IF l.remaining_principal <= 0
    THEN [loan |-> l, paid |-> 0]
    ELSE
      LET a == accrue_daily_interest(l)
          actual_payment == ActualPayment(get_minimum_payment(a), amount)
          interest_paid == IF actual_payment >= a.accrued_interest
                           THEN a.accrued_interest ELSE actual_payment
          rest == IF actual_payment >= a.accrued_interest
                  THEN actual_payment - a.accrued_interest ELSE 0
          principal_paid == Min(rest, a.remaining_principal)
      IN [loan |-> [a EXCEPT !.accrued_interest = @ - interest_paid,
                             !.remaining_principal = @ - principal_paid,
                             !.remaining_days = @ - 1],
          paid |-> interest_paid + principal_paid]

---------------------------------------------------------------------------
(* SalonState *)

\* the value drawn by random.randint(lo, hi) for the draw u in 0..99
RandInt(lo, hi, u) == lo + ((u * (hi - lo + 1)) \div 100)

\* the index drawn by random.choice over n elements for the draw u in 0..99
ChoiceIndex(n, u) == ((u * n) \div 100) + 1

get_total_time_reduction(stars) ==
    LET unlocked == {TOOL_CONFIG[i][2] : i \in {j \in 1..Len(TOOL_CONFIG) :
                                                  TOOL_CONFIG[j][1] <= stars}}
    IN IF unlocked = {} THEN 0
       ELSE CHOOSE r \in unlocked : \A o \in unlocked : o <= r

get_available_items(item_type, stars) ==
    LET Ok(it) == it.type = item_type /\ it.star_req <= stars
    IN SelectSeq(ITEM_CONFIG, Ok)

\* faulty variant of get_current_customer_rank: the grade requirement of the
\* tier is not looked at
RankByStarsOnly(g, stars) ==
    LET ok == {i \in 1..Len(CUSTOMER_RANKS) : CUSTOMER_RANKS[i][5] <= stars}
    IN IF ok = {} THEN CUSTOMER_RANKS[1]
       ELSE CUSTOMER_RANKS[CHOOSE i \in ok : \A o \in ok : o <= i]

\* the last rank of CUSTOMER_RANKS that grade and star level unlock, the first
\* rank when they unlock none
get_current_customer_rank(g, stars) ==
    LET ok == {i \in 1..Len(CUSTOMER_RANKS) :
                  g >= TIER_GRADE_REQUIREMENT[CUSTOMER_RANKS[i][1]]
                  /\ CUSTOMER_RANKS[i][5] <= stars}
    IN IF ok = {} THEN CUSTOMER_RANKS[1]
       ELSE CUSTOMER_RANKS[CHOOSE i \in ok : \A o \in ok : o <= i]

get_beds(g) == GRADE_CONFIG[g].beds

get_rent(g) == GRADE_CONFIG[g].rent

get_attraction_cap(g) == GRADE_CONFIG[g].attraction_cap

\* int(base_max * (operating_time / 600.0))
get_max_customers(g) == (GRADE_CONFIG[g].max_customers * OPERATING_TIME) \div 600

\* faulty variant of update_star_rating: the star level is never revised
StarsKept(review, old_stars) == old_stars

\* faulty variant of update_star_rating: a star once reached is never lost
StarsNeverLost(review, old_stars) ==
    LET reached == {st \in 1..Len(REVIEW_THRESHOLDS) :
                       review >= REVIEW_THRESHOLDS[st]}
    IN IF reached = {} THEN old_stars
       ELSE Max(old_stars, CHOOSE st \in reached : \A o \in reached : o <= st)

\* the star level after update_star_rating: the highest star whose threshold
\* the cumulative review reaches; unchanged when it reaches none
update_star_rating(review, old_stars) ==
    LET reached == {st \in 1..Len(REVIEW_THRESHOLDS) :
                       review >= REVIEW_THRESHOLDS[st]}
    IN IF reached = {} THEN old_stars
       ELSE CHOOSE st \in reached : \A o \in reached : o <= st

\* faulty variant of Clamp: only the lower limit is applied
FlooredOnly(x, lo, hi) == Max(lo, x)

\* max(lo, min(x, hi))
Clamp(x, lo, hi) == Max(lo, Min(x, hi))

---------------------------------------------------------------------------
(* Advertisements *)

\* AD_CONFIG[name] in the catalog cfg
AdEntry(cfg, name) == cfg[CHOOSE i \in 1..Len(cfg) : cfg[i].name = name]

\* the decay loop of simulate_day over the active ads: what each ad adds to
\* total_ad_boost, the ads after decay, and the indices marked for removal
DecayAd(cfg, ad) ==
    [ad EXCEPT !.current_boost = @ - AdEntry(cfg, ad.type).decay,
               !.remaining = @ - 1]

\* faulty variant of AdExpired: the days left are not looked at
ExpiredByBoostOnly(ad) == ad.current_boost <= 0

AdExpired(ad) == ad.remaining <= 0 \/ ad.current_boost <= 0

DecayStep(cfg, ads) ==
    LET decayed == [i \in 1..Len(ads) |-> DecayAd(cfg, ads[i])]
        ads_to_remove == {i \in 1..Len(ads) : AdExpired(decayed[i])}
    IN [boosts |-> [i \in 1..Len(ads) |->
                       [type |-> ads[i].type, boost |-> ads[i].current_boost]],
        ads |-> RemoveAt(decayed, ads_to_remove)]

\* efficiency of _select_best_ad as a fraction: 100.0 for a free ad, else
\* attraction_boost * duration / cost * 100 (both sides divided by 100)
EffNum(a) == IF a.cost = 0 THEN 1 ELSE a.attraction_boost * a.duration

EffDen(a) == IF a.cost = 0 THEN 1 ELSE a.cost

EffGreater(a, b) == EffNum(a) * EffDen(b) > EffNum(b) * EffDen(a)

\* available_ads after the stable sort by descending efficiency
SortedAvailableAds(cfg, stars, exclude_types) ==
    LET Ok(a) == a.name # "none" /\ a.name \notin exclude_types
                 /\ a.star_req <= stars
        av == SelectSeq(cfg, Ok)
        Before(i, j) == EffGreater(av[i], av[j])
                        \/ (~EffGreater(av[j], av[i]) /\ i < j)
        Pos(i) == 1 + Cardinality({j \in 1..Len(av) : Before(j, i)})
    IN [k \in 1..Len(av) |-> av[CHOOSE i \in 1..Len(av) : Pos(i) = k]]

\* _select_best_ad: "" stands for None; u is the draw of random.choice
select_best_ad(cfg, stars, exclude_types, u) ==
    LET sorted == SortedAvailableAds(cfg, stars, exclude_types)
        top == Min(3, Len(sorted))
    IN IF Len(sorted) = 0 THEN ""
       ELSE sorted[ChoiceIndex(top, u)].name

\* cost <= money * 0.2 or cost == 0
Affordable(cost, mny) == 5 * cost <= mny \/ cost = 0

\* faulty variant of RatioHigh: ads are held back only above the cap
RatioOverCap(attraction, cap) == attraction > cap

\* attraction_ratio >= 0.9
RatioHigh(attraction, cap) == 10 * attraction >= 9 * cap

AdTypes(ads) == {ads[i].type : i \in 1..Len(ads)}

\* the purchase loop of simulate_day; b holds the active ads, the ads bought
\* so far and their cost, k counts the iterations, us are the draws
RECURSIVE BuyAds(_, _, _, _, _, _, _)
BuyAds(cfg, stars, mny, ratio_high, b, k, us) ==
    IF Len(b.ads) >= 3 THEN b
    ELSE IF ratio_high /\ Len(b.ads) >= 1 THEN b
    ELSE
      LET best_ad == select_best_ad(cfg, stars, AdTypes(b.ads), us[k])
      IN IF best_ad = "" THEN b
         ELSE
           LET c == AdEntry(cfg, best_ad)
           IN IF Affordable(c.cost, mny)
              THEN BuyAds(cfg, stars, mny, ratio_high,
                     [ads |-> Append(b.ads,
                                [type |-> best_ad, remaining |-> c.duration,
                                 current_boost |-> c.attraction_boost]),
                      bought |-> Append(b.bought,
                                [type |-> best_ad, boost |-> c.attraction_boost]),
                      expense_ad |-> b.expense_ad + c.cost],
                     k + 1, us)
              ELSE b

---------------------------------------------------------------------------
(* Customers *)

\* int(value * review_multiplier)
ScaledReview(value, multiplier) == Trunc(value * multiplier, 100)

\* the base review of a successful treatment
BaseReview(roll_u, review_u) ==
    IF roll_u < 80 THEN 50
    ELSE IF roll_u < 95 THEN RandInt(30, 49, review_u)
    ELSE RandInt(-10, 29, review_u)

\* an arrival past the daily capacity
AngryLeave ==
    [turned_away |-> TRUE, served |-> 0, revenue |-> 0, expense_items |-> 0,
     reviews |-> <<-50>>, tier |-> "", star_req |-> 0, success |-> FALSE]

\* what the body of the service loop reads from the state; the source reads
\* it again for every customer, but neither grade, star_level nor the roster
\* changes inside the loop
ServiceContext(g, stars, stf, daily_capacity) ==
    [rank_data |-> get_current_customer_rank(g, stars),
     reception_items |-> get_available_items("reception", stars),
     register_items |-> get_available_items("register", stars),
     staff |-> stf,
     daily_capacity |-> daily_capacity]

\* tier_to_wealth.get(tier, WealthLevel.POOREST)
WealthOfTier(tier) ==
    IF tier \in DOMAIN tier_to_wealth THEN tier_to_wealth[tier] ELSE POOREST

\* one serviced customer: body of the loop of simulate_day below the
\* capacity check, c being the customer's draws
ServeCustomer(ctx, c) ==
    LET rank_data == ctx.rank_data
        tier == rank_data[1]
        customer_payment == rank_data[2]
                            + RandInt(rank_data[3], rank_data[4], c.budget_u)
        customer_wealth == WealthOfTier(tier)
        rank == ctx.staff[ChoiceIndex(Len(ctx.staff), c.staff_u)]
        success == c.success_u < get_success_rate(rank, customer_wealth)
        review_multiplier == get_review_multiplier(rank)
        reception_items == ctx.reception_items
        register_items == ctx.register_items
        reception == IF reception_items = <<>> THEN <<>>
                     ELSE <<reception_items[ChoiceIndex(Len(reception_items),
                                                       c.reception_u)]>>
        register == IF register_items = <<>> THEN <<>>
                    ELSE <<register_items[ChoiceIndex(Len(register_items),
                                                     c.register_u)]>>
        items == reception \o register
    IN IF success
       THEN [turned_away |-> FALSE, served |-> 1,
             revenue |-> customer_payment
                         + SumSeq([i \in 1..Len(items) |-> items[i].price]),
             expense_items |-> SumSeq([i \in 1..Len(items) |-> items[i].cost]),
             reviews |-> [i \in 1..Len(items) |->
                            ScaledReview(items[i].review_bonus,
                                         review_multiplier)]
                         \o <<ScaledReview(BaseReview(c.roll_u, c.review_u),
                                           review_multiplier)>>,
             tier |-> tier, star_req |-> rank_data[5], success |-> TRUE]
       ELSE [turned_away |-> FALSE, served |-> 1, revenue |-> 0,
             expense_items |-> 0,
             reviews |-> <<ScaledReview(RandInt(-50, 0, c.review_u),
                                        review_multiplier)>>,
             tier |-> tier, star_req |-> rank_data[5], success |-> FALSE]

\* faulty variant of OverCapacity: the comparison is off by one
OverCapacityLate(processed_count, daily_capacity) ==
    processed_count > daily_capacity

\* whether the arrival that finds processed_count customers already
\* processed is turned away
OverCapacity(processed_count, daily_capacity) ==
    processed_count >= daily_capacity

\* the draws of the i-th arrival of the day
CustomerDraw(draws, i) ==
    draws.customers[((i - 1) % Len(draws.customers)) + 1]

\* the number of arrivals of the log that raised processed_count
Processed(log) == Cardinality({i \in 1..Len(log) : ~log[i].turned_away})

\* one iteration of the service loop of simulate_day: the i-th arrival,
\* who finds processed_count customers already processed
Arrival(ctx, draws, i, processed_count) ==
    IF OverCapacity(processed_count, ctx.daily_capacity) THEN AngryLeave
    ELSE ServeCustomer(ctx, CustomerDraw(draws, i))

\* the iterations lo..hi of the service loop, the first of which finds
\* processed_count customers already processed: the log of these arrivals
RECURSIVE ServiceLoop(_, _, _, _, _)
ServiceLoop(ctx, draws, lo, hi, processed_count) ==
    IF lo > hi THEN <<>>
    ELSE IF lo = hi THEN <<Arrival(ctx, draws, lo, processed_count)>>
    ELSE LET mid == (lo + hi) \div 2
             first == ServiceLoop(ctx, draws, lo, mid, processed_count)
         IN first \o ServiceLoop(ctx, draws, mid + 1, hi,
                                 processed_count + Processed(first))

\* int((operating_time / effective_treatment_time) * staff_beds) with
\* effective_treatment_time = max(1.0, avg_treatment_time * (1 - reduction))
DailyCapacity(avg_time, reduction, staff_beds) ==
    IF avg_time * (100 - reduction) < 100
    THEN OPERATING_TIME * staff_beds
    ELSE (OPERATING_TIME * 100 * staff_beds) \div (avg_time * (100 - reduction))

\* int(max_customers * (effective_attraction / cap))
ExpectedCustomers(max_customers, effective_attraction, cap) ==
    (max_customers * effective_attraction) \div cap

---------------------------------------------------------------------------
(* Feedback update *)

\* The inputs on which the float expression int((total / n / 5) * grade)
\* falls one short (in magnitude) of the exact quotient total * grade / (5 n):
\* the quotient is a whole number K, total / n in lowest terms has the
\* denominator q, and <<grade, q, lo, hi, step>> lists K = lo, lo + step, ..
\* up to hi.  Recorded from the float evaluation for every grade, every
\* n <= 214 and every |total| < 26000.
FLOAT_SHORT == {
    <<3, 3, 7, 14, 7>>, <<3, 3, 25, 31, 3>>, <<3, 3, 50, 62, 3>>,
    <<3, 3, 97, 127, 3>>, <<3, 3, 194, 254, 3>>, <<3, 3, 385, 511, 3>>,
    <<3, 3, 770, 1022, 3>>, <<3, 3, 1537, 2047, 3>>, <<3, 3, 3074, 4094, 3>>,
    <<6, 3, 14, 28, 14>>, <<6, 3, 50, 62, 6>>, <<6, 3, 100, 124, 6>>,
    <<6, 3, 194, 254, 6>>, <<6, 3, 388, 508, 6>>, <<6, 3, 770, 1022, 6>>,
    <<6, 3, 1540, 2044, 6>>, <<6, 3, 3074, 4094, 6>>, <<6, 3, 6148, 8188, 6>>,
    <<6, 6, 7, 25, 18>>, <<6, 6, 31, 53, 22>>, <<6, 6, 59, 97, 38>>,
    <<6, 6, 103, 127, 6>>, <<6, 6, 197, 251, 6>>, <<6, 6, 385, 511, 6>>,
    <<6, 6, 773, 1019, 6>>, <<6, 6, 1537, 2047, 6>>, <<6, 6, 3077, 4091, 6>>,
    <<7, 7, 27, 47, 20>>, <<7, 7, 54, 61, 7>>, <<7, 7, 94, 122, 7>>,
    <<7, 7, 181, 251, 7>>, <<7, 7, 362, 509, 7>>, <<7, 7, 717, 1018, 7>>,
    <<7, 7, 1434, 2043, 7>>, <<7, 7, 2868, 4093, 7>> }

FloatShort(total_review, daily_customers, g) ==
    LET a == Abs(total_review)
        q == daily_customers \div GCD(daily_customers, a)
        K == (a * g) \div (5 * daily_customers)
    IN /\ (a * g) % (5 * daily_customers) = 0
       /\ \E r \in FLOAT_SHORT :
             /\ r[1] = g /\ r[2] = q
             /\ r[3] <= K /\ K <= r[4] /\ (K - r[3]) % r[5] = 0

\* faulty variant of AttractionChange: the change is rounded down
FlooredChange(total_review, daily_customers, g) ==
    IF daily_customers = 0 THEN 0
    ELSE (total_review * g) \div (5 * daily_customers)

\* int((avg_review_per_customer / 5) * grade), the average being
\* total_review / daily_customers, or 0 when nobody was served
AttractionChange(total_review, daily_customers, g) ==
    IF daily_customers = 0 THEN 0
    ELSE LET exact == Trunc(total_review * g, 5 * daily_customers)
         IN IF ~FloatShort(total_review, daily_customers, g) THEN exact
            ELSE IF exact > 0 THEN exact - 1 ELSE exact + 1

\* faulty variant of NewAttraction: the clamp is left out
UnclampedAttraction(attraction, change, cap) == attraction + change

\* attraction_level after the feedback update
NewAttraction(attraction, change, cap) == Clamp(attraction + change, 10, cap)

\* faulty variant of NewCumulativeReview: the floor at 0 is left out
UnflooredReview(review, today_review_total) == review + today_review_total

\* cumulative_review after the day's reviews
NewCumulativeReview(review, today_review_total) ==
    Max(0, review + today_review_total)

---------------------------------------------------------------------------
(* The random draws of one day *)

\* one customer's draws, each a number of hundredths in 0..99
Lucky == [staff_u |-> 0, success_u |-> 0, budget_u |-> 99, reception_u |-> 99,
          register_u |-> 99, roll_u |-> 0, review_u |-> 99]

Unlucky == [staff_u |-> 99, success_u |-> 99, budget_u |-> 0, reception_u |-> 0,
            register_u |-> 0, roll_u |-> 99, review_u |-> 0]

Middling == [staff_u |-> 50, success_u |-> 50, budget_u |-> 50,
             reception_u |-> 50, register_u |-> 50, roll_u |-> 85,
             review_u |-> 50]

\* variance is the draw of random.randint(-3, 3), ad_u the draws of the
\* random.choice calls of _select_best_ad, customers the draws of the
\* arrivals, repeated cyclically
DayDraws == {
    [variance |-> 3, ad_u |-> <<0, 0, 0>>, customers |-> <<Lucky>>],
    [variance |-> -3, ad_u |-> <<99, 99, 99>>, customers |-> <<Unlucky>>],
    [variance |-> 0, ad_u |-> <<50, 0, 99>>,
     customers |-> <<Lucky, Middling, Unlucky>>] }

---------------------------------------------------------------------------
(* simulate_day *)

NoLoanInfo == [none |-> TRUE, loans |-> <<>>, total |-> 0]

\* what simulate_day computes before the service loop
\* faulty variant of RentDue: rent falls due every day
RentDaily(dy) == TRUE

\* self.state.day % 3 == 0
RentDue(dy) == dy % 3 = 0

DayOpening(d) ==
    LET cap == get_attraction_cap(grade)
        decay == DecayStep(ad_config, active_ads)
        buy == BuyAds(ad_config, star_level, money,
                      RatioHigh(attraction_level, cap),
                      [ads |-> decay.ads, bought |-> <<>>, expense_ad |-> 0],
                      1, d.ad_u)
        ad_boosts == decay.boosts \o buy.bought
        total_ad_boost == SumSeq([i \in 1..Len(ad_boosts) |-> ad_boosts[i].boost])
        payments == [i \in 1..Len(loans) |-> make_payment(loans[i], 0)]
        loans_to_remove == {i \in 1..Len(loans) : is_paid_off(payments[i].loan)}
        effective_attraction ==
            Clamp(attraction_level + total_ad_boost + d.variance, 10, cap)
        max_customers == get_max_customers(grade)
    IN [decayed |-> decay.boosts,
        bought |-> buy.bought,
        ads |-> buy.ads,
        total_ad_boost |-> total_ad_boost,
        expense_ad |-> buy.expense_ad,
        expense_rent |-> IF RentDue(day) THEN get_rent(grade) ELSE 0,
        expense_staff |->
            SumSeq([i \in 1..Len(staff) |-> get_daily_salary(staff[i])]),
        payments |-> [i \in 1..Len(loans) |-> payments[i].paid],
        expense_loan |-> SumSeq([i \in 1..Len(loans) |-> payments[i].paid]),
        loans |-> RemoveAt([i \in 1..Len(loans) |-> payments[i].loan],
                           loans_to_remove),
        max_customers |-> max_customers,
        expected_customers |->
            ExpectedCustomers(max_customers, effective_attraction, cap),
        daily_capacity |->
            DailyCapacity(avg_treatment_time,
                          get_total_time_reduction(star_level),
                          Min(get_beds(grade), Len(staff)))]

\* the totals of the service loop
DayTotals(arrivals) ==
    LET n == Len(arrivals)
    IN [daily_customers |-> SumSeq([i \in 1..n |-> arrivals[i].served]),
        daily_revenue |-> SumSeq([i \in 1..n |-> arrivals[i].revenue]),
        expense_items |-> SumSeq([i \in 1..n |-> arrivals[i].expense_items]),
        total_review |-> SumSeq([i \in 1..n |-> SumSeq(arrivals[i].reviews)]),
        angry_leaves_count |->
            Cardinality({i \in 1..n : arrivals[i].turned_away})]

\* daily_expenses: expense_items is tracked but never added to it
DailyExpenses(o, t) ==
    o.expense_ad + o.expense_rent + o.expense_staff + o.expense_loan

\* faulty variant of Net: the expenses are not taken off
GrossAsNet(daily_revenue, daily_expenses) == daily_revenue

\* net = daily_revenue - daily_expenses
Net(daily_revenue, daily_expenses) == daily_revenue - daily_expenses

SimulateDay(d) ==
    \E o \in {DayOpening(d)} :
    \E ctx \in {ServiceContext(grade, star_level, staff, o.daily_capacity)} :
    \E arrivals \in {ServiceLoop(ctx, d, 1, o.expected_customers, 0)} :
    \E t \in {DayTotals(arrivals)} :
    LET cap == get_attraction_cap(grade)
        expense_ad == o.expense_ad
        expense_rent == o.expense_rent
        expense_staff == o.expense_staff
        expense_loan == o.expense_loan
        loans_after == o.loans
        total_ad_boost == o.total_ad_boost
        max_customers == o.max_customers
        daily_customers == t.daily_customers
        daily_revenue == t.daily_revenue
        expense_items == t.expense_items
        total_review == t.total_review
        daily_expenses == DailyExpenses(o, t)
        attraction_change == AttractionChange(total_review, daily_customers, grade)
        new_attraction == NewAttraction(attraction_level, attraction_change, cap)
        new_review == NewCumulativeReview(cumulative_review, total_review)
        new_stars == update_star_rating(new_review, star_level)
        net == Net(daily_revenue, daily_expenses)
    IN /\ day < horizon
       /\ active_ads' = o.ads
       /\ loans' = loans_after
       /\ attraction_level' = new_attraction
       /\ cumulative_review' = new_review
       /\ star_level' = new_stars
       /\ money' = money + net
       /\ total_revenue' = total_revenue + daily_revenue
       /\ total_expenses' = total_expenses + daily_expenses
       /\ customers_served' = customers_served + daily_customers
       /\ day' = day + 1
       /\ result' =
            [op |-> "simulate_day",
             ret |-> [day |-> day, grade |-> grade, stars |-> new_stars,
                      revenue |-> daily_revenue, expenses |-> daily_expenses,
                      net |-> net, money |-> money + net,
                      expense_ad |-> expense_ad, expense_rent |-> expense_rent,
                      expense_staff |-> expense_staff,
                      expense_loan |-> expense_loan,
                      expense_items |-> expense_items,
                      staff_count |-> Len(staff),
                      active_loans |->
                          Cardinality({i \in 1..Len(loans_after) :
                                          loans_after[i].remaining_days > 0}),
                      new_ad |-> IF o.bought = <<>> THEN ""
                                 ELSE o.bought[1].type,
                      active_ads_count |-> Len(o.ads),
                      ad_boost |-> total_ad_boost,
                      customers |-> daily_customers,
                      max_customers |-> max_customers,
                      attraction_level |-> new_attraction,
                      attraction_cap |-> cap,
                      today_review |-> total_review,
                      review_total |-> new_review],
             obs |-> [expected_customers |-> o.expected_customers,
                      daily_capacity |-> o.daily_capacity,
                      angry_leaves_count |-> t.angry_leaves_count,
                      arrivals |-> arrivals,
                      decayed |-> o.decayed,
                      bought |-> o.bought,
                      payments |-> o.payments,
                      attraction_change |-> attraction_change]]
       /\ UNCHANGED <<grade, staff, tool_grade, config, horizon>>

---------------------------------------------------------------------------
(* try_upgrade *)

\* faulty variant of LoanProductsByAmount: the products in catalog order
LoanProductsAsListed == LOAN_CONFIG

\* sorted(LOAN_CONFIG.items(), key=lambda x: -x[1]["max_amount"])
LoanProductsByAmount ==
    LET Before(i, j) == LOAN_CONFIG[i].max_amount > LOAN_CONFIG[j].max_amount
                        \/ (LOAN_CONFIG[i].max_amount = LOAN_CONFIG[j].max_amount
                            /\ i < j)
        Pos(i) == 1 + Cardinality({j \in 1..Len(LOAN_CONFIG) : Before(j, i)})
    IN [k \in 1..Len(LOAN_CONFIG) |->
           LOAN_CONFIG[CHOOSE i \in 1..Len(LOAN_CONFIG) : Pos(i) = k]]

\* tool_cost of try_upgrade: TOOL_CONFIG is keyed by tool names, so the test
\* "next_grade in TOOL_CONFIG" is false for every grade and nothing is added
ToolCost(next_grade) == 0

TotalCost(next_grade) ==
    GRADE_CONFIG[next_grade].upgrade_cost
    + ToolCost(next_grade) * GRADE_CONFIG[next_grade].beds

\* the loan types of state.loans that are not paid off
ActiveLoanTypes(ls) ==
    LET Open(l) == ~is_paid_off(l)
        open == SelectSeq(ls, Open)
    IN [i \in 1..Len(open) |-> open[i].loan_type]

\* "already borrowed enough" test of the financing loop; mny is state.money
\* at that point, which already contains total_borrowed
BorrowedEnough(mny, total_borrowed, total_cost) ==
    mny + total_borrowed >= total_cost

\* loan-slot test of the financing loop
SlotsFull(active_count, taken_count) ==
    active_count + taken_count >= MAX_ACTIVE_LOANS

\* faulty variant of SkipProduct: the products already borrowed are offered
\* again
SkipLockedOnly(p, active_loan_types, g) == p.grade_req > g

\* whether the financing loop skips the product
SkipProduct(p, active_loan_types, g) ==
    \/ \E i \in 1..Len(active_loan_types) : active_loan_types[i] = p.name
    \/ p.grade_req > g

\* the financing loop of try_upgrade from the j-th product on; f holds
\* state.money, state.loans, loans_taken and total_borrowed
RECURSIVE Finance(_, _, _, _, _)
Finance(j, f, active_loan_types, g, total_cost) ==
    IF j > Len(LoanProductsByAmount) THEN f
    ELSE
      LET p == LoanProductsByAmount[j]
      IN IF SkipProduct(p, active_loan_types, g)
         THEN Finance(j + 1, f, active_loan_types, g, total_cost)
         ELSE IF BorrowedEnough(f.money, f.total_borrowed, total_cost) THEN f
         ELSE IF SlotsFull(Len(active_loan_types), Len(f.loans_taken)) THEN f
         ELSE Finance(j + 1,
                [money |-> f.money + p.max_amount,
                 loans |-> Append(f.loans,
                             NewLoan(p.name, p.max_amount, p.daily_rate,
                                     p.term_days)),
                 loans_taken |-> Append(f.loans_taken,
                             [type |-> p.name, amount |-> p.max_amount,
                              term |-> p.term_days]),
                 total_borrowed |-> f.total_borrowed + p.max_amount],
                active_loan_types, g, total_cost)

\* faulty variant of NextGrade: the grade is left as it was
SameGrade(g) == g

\* the grade after a successful upgrade
NextGrade(g) == g + 1

\* faulty variant of UpgradedStaff: only the newly hired get hire_rank
HiredAtRankOnly(stf, hire_rank, staff_slots) ==
    [i \in 1..Max(Len(stf), staff_slots) |->
        IF i <= Len(stf) THEN stf[i] ELSE hire_rank]

\* the roster after an upgrade: everybody at hire_rank, filled up to the slots
UpgradedStaff(stf, hire_rank, staff_slots) ==
    [i \in 1..Max(Len(stf), staff_slots) |-> hire_rank]

\* staff_rank_by_grade.get(next_grade, StaffRank.NEWBIE)
HireRank(next_grade) ==
    IF next_grade \in DOMAIN staff_rank_by_grade
    THEN staff_rank_by_grade[next_grade] ELSE NEWBIE

\* faulty variant of LoansEnabled: the configuration is ignored
LoansAlways == TRUE

\* whether try_upgrade may borrow
LoansEnabled == use_loans

\* faulty variant of UpgradeBlocked: the star requirement is not checked
BlockedAtTopOnly(g, stars) == g >= MAX_GRADE

\* whether try_upgrade returns at once: top grade, or too few stars
UpgradeBlocked(g, stars) ==
    \/ g >= MAX_GRADE
    \/ stars < GRADE_CONFIG[g + 1].required_stars

\* faulty variant of DoUpgrade: the upgrade is not paid for
DoUpgradeUnpaid(mny, ls, loan_info) ==
    LET next_grade == NextGrade(grade)
        cfg == GRADE_CONFIG[next_grade]
    IN /\ grade' = next_grade
       /\ money' = mny
       /\ tool_grade' = next_grade
       /\ staff' = UpgradedStaff(staff, HireRank(next_grade), cfg.staff_slots)
       /\ loans' = ls
       /\ result' = [op |-> "try_upgrade",
                     ret |-> [upgraded |-> TRUE, loan_info |-> loan_info],
                     obs |-> [total_cost |-> TotalCost(next_grade),
                              borrowed |-> loan_info.loans]]

\* "upgrade executed" part of try_upgrade, mny and ls being state.money and
\* state.loans at that point
DoUpgrade(mny, ls, loan_info) ==
    LET next_grade == NextGrade(grade)
        cfg == GRADE_CONFIG[next_grade]
    IN /\ grade' = next_grade
       /\ money' = mny - cfg.upgrade_cost
                       - ToolCost(next_grade) * cfg.beds
       /\ tool_grade' = next_grade
       /\ staff' = UpgradedStaff(staff, HireRank(next_grade), cfg.staff_slots)
       /\ loans' = ls
       /\ result' = [op |-> "try_upgrade",
                     ret |-> [upgraded |-> TRUE, loan_info |-> loan_info],
                     obs |-> [total_cost |-> TotalCost(next_grade),
                              borrowed |-> loan_info.loans]]

\* faulty variant of Refuse: the loans opened by the call are rolled back
RefuseRolledBack(mny, ls, taken) ==
    /\ money' = money
    /\ loans' = loans
    /\ result' = [op |-> "try_upgrade",
                  ret |-> [upgraded |-> FALSE, loan_info |-> NoLoanInfo],
                  obs |-> [total_cost |-> IF grade >= MAX_GRADE THEN 0
                                          ELSE TotalCost(grade + 1),
                           borrowed |-> taken]]
    /\ UNCHANGED <<grade, staff, tool_grade>>

\* try_upgrade returning (False, None); mny and ls are state.money and
\* state.loans at the return, taken the loans opened by this call
Refuse(mny, ls, taken) ==
    /\ money' = mny
    /\ loans' = ls
    /\ result' = [op |-> "try_upgrade",
                  ret |-> [upgraded |-> FALSE, loan_info |-> NoLoanInfo],
                  obs |-> [total_cost |-> IF grade >= MAX_GRADE THEN 0
                                          ELSE TotalCost(grade + 1),
                           borrowed |-> taken]]
    /\ UNCHANGED <<grade, staff, tool_grade>>

\* faulty variant of TryUpgrade: the call is refused and the next day begins
TryUpgradeOvernight ==
    /\ day' = day + 1
    /\ UNCHANGED <<cumulative_review, star_level, attraction_level,
                   active_ads, total_revenue, total_expenses,
                   customers_served, config, horizon>>
    /\ Refuse(money, loans, <<>>)

TryUpgrade ==
    /\ UNCHANGED <<cumulative_review, star_level, attraction_level, day,
                   active_ads, total_revenue, total_expenses,
                   customers_served, config, horizon>>
    /\ IF UpgradeBlocked(grade, star_level) THEN Refuse(money, loans, <<>>)
       ELSE
         LET total_cost == TotalCost(grade + 1)
             active_loan_types == ActiveLoanTypes(loans)
         IN IF money >= total_cost THEN DoUpgrade(money, loans, NoLoanInfo)
            ELSE IF ~LoansEnabled THEN Refuse(money, loans, <<>>)
            ELSE IF Len(active_loan_types) >= MAX_ACTIVE_LOANS
                 THEN Refuse(money, loans, <<>>)
            ELSE
              LET f == Finance(1, [money |-> money, loans |-> loans,
                                   loans_taken |-> <<>>, total_borrowed |-> 0],
                               active_loan_types, grade, total_cost)
              IN IF f.money < total_cost
                 THEN Refuse(f.money, f.loans, f.loans_taken)
                 ELSE DoUpgrade(f.money, f.loans,
                                [none |-> FALSE, loans |-> f.loans_taken,
                                 total |-> f.total_borrowed])

---------------------------------------------------------------------------
(* Construction and the specification *)

\* SalonState() as completed by SalonSimulator.__init__; tool_grade 0 stands
\* for the attribute that try_upgrade has not created yet
Constructed ==
    [grade |-> 1, money |-> 1000, cumulative_review |-> 0, star_level |-> 1,
     attraction_level |-> 50, day |-> 1,
     staff |-> <<REGULAR>>,
     loans |-> <<>>,
     active_ads |-> <<>>,
     total_revenue |-> 0, total_expenses |-> 0, customers_served |-> 0,
     tool_grade |-> 0]

(* States recorded from executions of the simulator with the default       *)
(* avg_treatment_time, each with the calls that lead to it.  They let the  *)
(* exploration start late in a run, where the days of the run itself are   *)
(* too many to enumerate.                                                  *)

\* random.seed(1); simulate_day() until star_level = 20; try_upgrade() is
\* never called, so use_loans has had no effect yet
HeldAtGrade1 ==
    [grade |-> 1, money |-> 100010, cumulative_review |-> 43032, star_level |-> 20,
     attraction_level |-> 100, day |-> 68,
     staff |-> <<2>>,
     loans |-> <<>>,
     active_ads |-> <<[type |-> "paid_sns", remaining |-> 3, current_boost |-> 25]>>,
     total_revenue |-> 141310, total_expenses |-> 42300, customers_served |-> 851,
     tool_grade |-> 0]

\* random.seed(0); use_loans; simulate_day() then try_upgrade(), 14 times
MidRun ==
    [grade |-> 3, money |-> 31634, cumulative_review |-> 8252, star_level |-> 11,
     attraction_level |-> 231, day |-> 15,
     staff |-> <<1, 1, 1, 1, 1, 1, 1>>,
     loans |-> <<[loan_type |-> "business", principal |-> 50000,
                 daily_rate |-> 5, term_days |-> 10,
                 remaining_principal |-> 45000, remaining_days |-> 9,
                 accrued_interest |-> 0]>>,
     active_ads |-> <<[type |-> "paid_sns", remaining |-> 4, current_boost |-> 30],
                      [type |-> "magazine", remaining |-> 5, current_boost |-> 50],
                      [type |-> "free_sns", remaining |-> 3, current_boost |-> 5]>>,
     total_revenue |-> 33384, total_expenses |-> 37750, customers_served |-> 217,
     tool_grade |-> 3]

\* random.seed(1); use_loans; simulate_day() alone while cumulative_review is
\* below 230000, after that each simulate_day() is followed by try_upgrade()
\* calls up to the first that returns False; the state before the first
\* try_upgrade() call that borrows and returns False
EliteOutstanding ==
    [grade |-> 6, money |-> 733285, cumulative_review |-> 256831, star_level |-> 30,
     attraction_level |-> 531, day |-> 343,
     staff |-> <<4, 4, 4, 4, 4, 4, 4, 4, 4, 4, 4, 4, 4>>,
     loans |-> <<[loan_type |-> "elite", principal |-> 2000000,
                 daily_rate |-> 15, term_days |-> 10,
                 remaining_principal |-> 800000, remaining_days |-> 4,
                 accrued_interest |-> 0]>>,
     active_ads |-> <<[type |-> "flyer", remaining |-> 3, current_boost |-> 9],
                      [type |-> "paid_sns", remaining |-> 4, current_boost |-> 30],
                      [type |-> "train_poster", remaining |-> 5, current_boost |-> 80]>>,
     total_revenue |-> 1535885, total_expenses |-> 1648600, customers_served |-> 4788,
     tool_grade |-> 6]

\* random.seed(0); use_loans; simulate_day() alone while cumulative_review is
\* below 248000, after that each simulate_day() is followed by try_upgrade()
\* calls up to the first that returns False; the state before the first
\* try_upgrade() call made at grade 6 with star_level 30
EliteJustBorrowed ==
    [grade |-> 6, money |-> 1427017, cumulative_review |-> 251218, star_level |-> 30,
     attraction_level |-> 169, day |-> 363,
     staff |-> <<4, 4, 4, 4, 4, 4, 4, 4, 4, 4, 4, 4, 4>>,
     loans |-> <<[loan_type |-> "elite", principal |-> 2000000,
                 daily_rate |-> 15, term_days |-> 10,
                 remaining_principal |-> 1800000, remaining_days |-> 9,
                 accrued_interest |-> 0]>>,
     active_ads |-> <<[type |-> "paid_sns", remaining |-> 3, current_boost |-> 25],
                      [type |-> "magazine", remaining |-> 5, current_boost |-> 50],
                      [type |-> "train_poster", remaining |-> 5, current_boost |-> 80]>>,
     total_revenue |-> 1067417, total_expenses |-> 486400, customers_served |-> 4718,
     tool_grade |-> 6]

\* random.seed(0); use_loans; the state in which run(100) returns
TopGrade ==
    [grade |-> 7, money |-> 502182, cumulative_review |-> 255627, star_level |-> 30,
     attraction_level |-> 1200, day |-> 50,
     staff |-> <<4, 4, 4, 4, 4, 4, 4, 4, 4, 4, 4, 4, 4>>,
     loans |-> <<>>,
     active_ads |-> <<[type |-> "paid_sns", remaining |-> 4, current_boost |-> 30]>>,
     total_revenue |-> 4146705, total_expenses |-> 3200523, customers_served |-> 4785,
     tool_grade |-> 7]

\* random.seed(0); use_loans; the state in which run(48) returns, one day
\* before run(100) reaches grade 7
RunNearTop ==
    [grade |-> 6, money |-> 2222793, cumulative_review |-> 243011, star_level |-> 29,
     attraction_level |-> 1200, day |-> 49,
     staff |-> <<4, 4, 4, 4, 4, 4, 4, 4, 4, 4, 4, 4, 4>>,
     loans |-> <<>>,
     active_ads |-> <<[type |-> "free_sns", remaining |-> 1, current_boost |-> 3]>>,
     total_revenue |-> 3855216, total_expenses |-> 3188423, customers_served |-> 4571,
     tool_grade |-> 6]

\* random.seed(0); use_loans; the state in which run(45) returns, with two
\* instalments of the elite loan left
RunLastInstalments ==
    [grade |-> 6, money |-> 1793157, cumulative_review |-> 204641, star_level |-> 28,
     attraction_level |-> 1200, day |-> 46,
     staff |-> <<4, 4, 4, 4, 4, 4, 4, 4, 4, 4, 4, 4, 4>>,
     loans |-> <<[loan_type |-> "elite", principal |-> 2000000,
                 daily_rate |-> 15, term_days |-> 10,
                 remaining_principal |-> 400000, remaining_days |-> 2,
                 accrued_interest |-> 0]>>,
     active_ads |-> <<[type |-> "flyer", remaining |-> 1, current_boost |-> 3]>>,
     total_revenue |-> 2985280, total_expenses |-> 2748123, customers_served |-> 3929,
     tool_grade |-> 6]

NoResult == [op |-> "init", ret |-> [upgraded |-> FALSE, loan_info |-> NoLoanInfo],
             obs |-> [total_cost |-> 0, borrowed |-> <<>>]]

\* the values of config["avg_treatment_time"] explored: 15 is the default,
\* 90 and 900 make the daily capacity of one bed 5 and 0
TreatmentTimes == {15, 90, 900}

\* the starting points: the state, the configurations it is reachable in,
\* and the number of days explored from it (the days of the first grade
\* have few customers, so more of them are explored)
Starts ==
    {[st |-> Constructed, use_loans |-> ul, avg_treatment_time |-> tt,
      days |-> MaxEarlyDays] :
        ul \in BOOLEAN, tt \in TreatmentTimes}
    \cup {[st |-> HeldAtGrade1, use_loans |-> ul, avg_treatment_time |-> 15,
           days |-> MaxDays] :
        ul \in BOOLEAN}
    \cup {[st |-> s, use_loans |-> TRUE, avg_treatment_time |-> 15,
           days |-> MaxDays] :
        s \in {MidRun, EliteOutstanding, EliteJustBorrowed, TopGrade}}

\* the fields of SalonState are those of the record st
StateIs(st) ==
    /\ grade = st.grade
    /\ money = st.money
    /\ cumulative_review = st.cumulative_review
    /\ star_level = st.star_level
    /\ attraction_level = st.attraction_level
    /\ day = st.day
    /\ staff = st.staff
    /\ loans = st.loans
    /\ active_ads = st.active_ads
    /\ total_revenue = st.total_revenue
    /\ total_expenses = st.total_expenses
    /\ customers_served = st.customers_served
    /\ tool_grade = st.tool_grade

StartIn(s) ==
    /\ StateIs(s.st)
    /\ use_loans = s.use_loans
    /\ avg_treatment_time = s.avg_treatment_time
    /\ ad_config = AD_CONFIG
    /\ result = NoResult
    /\ horizon = s.st.day + s.days

Init == \E s \in Starts : StartIn(s)

Next ==
    \/ \E d \in DayDraws : SimulateDay(d)
    \/ TryUpgrade

Spec == Init /\ [][Next]_vars

---------------------------------------------------------------------------
(* Loan on its own: a Loan is constructed and make_payment() is called on   *)
(* it with no amount, as simulate_day does.  state.loans holds the loan,    *)
(* the rest of the salon is as constructed and does not take part.          *)

\* the daily rates tried with the small loans, in thousandths
LoanRates == {-250, 0, 15, 250}

\* remaining_principal + accrued_interest
LoanDebt(l) == l.remaining_principal + l.accrued_interest

\* Loan(...) for small principals and terms, and for the LOAN_CONFIG products
LoanStarts ==
    {NewLoan("loan", p, r, t) :
        p \in 0..MaxLoanPrincipal, r \in LoanRates, t \in 0..MaxLoanTerm}
    \cup {NewLoan(LOAN_CONFIG[i].name, LOAN_CONFIG[i].max_amount,
                  LOAN_CONFIG[i].daily_rate, LOAN_CONFIG[i].term_days) :
             i \in 1..Len(LOAN_CONFIG)}

InitLoan ==
    \E l \in LoanStarts :
        /\ StateIs([Constructed EXCEPT !.loans = <<l>>])
        /\ use_loans = FALSE
        /\ avg_treatment_time = 15
        /\ ad_config = AD_CONFIG
        /\ result = [op |-> "Loan", ret |-> 0,
                     obs |-> [calls |-> 0, amount |-> 0, before |-> l,
                              debt_before |-> LoanDebt(l),
                              was_paid_off |-> is_paid_off(l)]]
        /\ horizon = Constructed.day

\* one make_payment(amount) call on the loan; obs keeps the number of calls
\* made so far, the amount passed and what the loan was before the call
Pay(amount) ==
    \E r \in {make_payment(loans[1], amount)} :
        /\ result.obs.calls < loans[1].term_days + MaxExtraCalls
        /\ loans' = <<r.loan>>
        /\ result' = [op |-> "make_payment", ret |-> r.paid,
                      obs |-> [calls |-> result.obs.calls + 1,
                               amount |-> amount,
                               before |-> loans[1],
                               debt_before |-> LoanDebt(loans[1]),
                               was_paid_off |-> is_paid_off(loans[1])]]
        /\ UNCHANGED <<grade, money, cumulative_review, star_level,
                       attraction_level, day, staff, active_ads,
                       total_revenue, total_expenses, customers_served,
                       tool_grade, config, horizon>>

\* make_payment(), the call simulate_day makes
MakePayment == Pay(0)

NextLoan == MakePayment

SpecLoan == InitLoan /\ [][NextLoan]_vars

(* Loan with early repayment: make_payment is called with and without an   *)
(* amount.                                                                  *)

\* the amounts offered: small ones, and one above any debt of a small loan
\* and of the starter product
PayAmounts == (1..MaxPayment) \cup {20000}

\* make_payment(amount) with amount > 0
MakeExtraPayment == \E amount \in PayAmounts : Pay(amount)

NextPay == MakePayment \/ MakeExtraPayment

SpecPay == InitLoan /\ [][NextPay]_vars

\* the same with the calls being made as long as the explored number of
\* calls allows
SpecPayOn == InitLoan /\ [][NextPay]_vars /\ WF_vars(NextPay)

---------------------------------------------------------------------------
(* run(max_days): simulate_day and try_upgrade alternate, day by day, from  *)
(* a state in which run is entered; horizon is the day counter after        *)
(* max_days days.                                                           *)

\* the states run is entered in: a new salon, and three states in which an
\* earlier run(n) with use_loans returned
RunStarts ==
    {[st |-> Constructed, use_loans |-> ul, avg_treatment_time |-> 15,
      days |-> MaxEarlyDays] : ul \in BOOLEAN}
    \cup {[st |-> s, use_loans |-> TRUE, avg_treatment_time |-> 15,
           days |-> MaxDays] :
           s \in {MidRun, RunLastInstalments, RunNearTop}}

InitRun == \E s \in RunStarts : StartIn(s)

\* faulty variant of KeepRunning: the loop is not left at the top grade
RunsOn(g) == TRUE

\* the loop goes on unless self.state.grade >= MAX_GRADE
KeepRunning(g) == g < MAX_GRADE

\* the simulate_day() of the next iteration of the loop
RunSimulateDay ==
    /\ result.op \in {"init", "try_upgrade"}
    /\ result.op = "try_upgrade" => KeepRunning(grade)
    /\ \E d \in DayDraws : SimulateDay(d)

\* the try_upgrade() of the iteration
RunTryUpgrade ==
    /\ result.op = "simulate_day"
    /\ TryUpgrade

NextRun == RunSimulateDay \/ RunTryUpgrade

SpecRun == InitRun /\ [][NextRun]_vars

---------------------------------------------------------------------------
(* The table lookups on their own: each lookup is applied to keys that are  *)
(* in its table and to keys that are not.  ret.rejected tells whether the   *)
(* lookup ended in an error; none of the three has such an outcome.         *)

\* the keys tried for wealth levels, ranks and grades
LookupKeys == 0..MaxKey

\* the tiers tried: those of tier_to_wealth and two others
LookupTiers == DOMAIN tier_to_wealth \cup {"VIP", ""}

\* the outcome of a lookup that returned value
Answered(value) == [rejected |-> FALSE, value |-> value]

InitLookup ==
    /\ StateIs(Constructed)
    /\ use_loans = FALSE
    /\ avg_treatment_time = 15
    /\ ad_config = AD_CONFIG
    /\ result = [op |-> "init", ret |-> Answered(0),
                 obs |-> [present |-> TRUE, wealth |-> 0, rank |-> 0,
                          tier |-> "", grade |-> 0]]
    /\ horizon = Constructed.day

\* Staff(rank).get_success_rate(customer_wealth)
LookupSuccessRate ==
    \E w \in LookupKeys, r \in LookupKeys :
        /\ result' = [op |-> "get_success_rate",
                      ret |-> Answered(get_success_rate(r, w)),
                      obs |-> [present |-> w \in POOREST..RICHEST
                                           /\ r \in STUDENT..PRO,
                               wealth |-> w, rank |-> r,
                               tier |-> "", grade |-> 0]]
        /\ UNCHANGED <<state, config, horizon>>

\* tier_to_wealth.get(tier, ...) of simulate_day
LookupWealth ==
    \E tier \in LookupTiers :
        /\ result' = [op |-> "tier_to_wealth",
                      ret |-> Answered(WealthOfTier(tier)),
                      obs |-> [present |-> tier \in DOMAIN tier_to_wealth,
                               wealth |-> 0, rank |-> 0,
                               tier |-> tier, grade |-> 0]]
        /\ UNCHANGED <<state, config, horizon>>

\* staff_rank_by_grade.get(next_grade, ...) of try_upgrade
LookupHireRank ==
    \E g \in LookupKeys :
        /\ result' = [op |-> "staff_rank_by_grade",
                      ret |-> Answered(HireRank(g)),
                      obs |-> [present |-> g \in DOMAIN staff_rank_by_grade,
                               wealth |-> 0, rank |-> 0,
                               tier |-> "", grade |-> g]]
        /\ UNCHANGED <<state, config, horizon>>

NextLookup == LookupSuccessRate \/ LookupWealth \/ LookupHireRank

SpecLookup == InitLookup /\ [][NextLookup]_vars

---------------------------------------------------------------------------
(* One advertisement on its own: the salon as constructed, with an ad       *)
(* catalog that offers a single free ad of boost 15, duration 3 and decay   *)
(* 5 next to the "none" entry, simulated day after day.                     *)

AdScenario ==
    <<AD_CONFIG[1],
      [name |-> "campaign", cost |-> 0, attraction_boost |-> 15,
       duration |-> 3, decay |-> 5, star_req |-> 1]>>

InitAd ==
    /\ StateIs(Constructed)
    /\ use_loans = FALSE
    /\ avg_treatment_time = 15
    /\ ad_config = AdScenario
    /\ result = NoResult
    /\ horizon = Constructed.day + MaxAdDays

NextAd == \E d \in DayDraws : SimulateDay(d)

SpecAd == InitAd /\ [][NextAd]_vars

---------------------------------------------------------------------------
(* Properties *)

\* the step is a try_upgrade call (or leaves everything as a try_upgrade
\* call left it)
IsTryUpgrade == result'.op = "try_upgrade"

\* the call returned (False, None)
ReturnsFalseNone(r) == ~r.ret.upgraded /\ r.ret.loan_info = NoLoanInfo

\* C1: in every reachable state attraction_level is at least 10 and at most
\* the attraction cap of the current grade
AttractionWithinBounds ==
    /\ attraction_level >= 10
    /\ attraction_level <= get_attraction_cap(grade)

\* a day whose positive attraction change ran into the cap
AttractionCapped ==
    /\ result.op = "simulate_day"
    /\ result.obs.attraction_change > 0
    /\ attraction_level = get_attraction_cap(grade)

\* C2: in every reachable state state.loans holds at most MAX_ACTIVE_LOANS
\* loans and no two loans that are not paid off have the same loan_type
LoansWithinLimit ==
    /\ Len(loans) <= MAX_ACTIVE_LOANS
    /\ \A i, j \in 1..Len(loans) :
          (i # j /\ ~is_paid_off(loans[i]) /\ ~is_paid_off(loans[j]))
              => loans[i].loan_type # loans[j].loan_type

\* a try_upgrade call that borrowed, failed and left three loans open
ThreeLoansAfterFailedUpgrade ==
    /\ result.op = "try_upgrade"
    /\ ~result.ret.upgraded
    /\ result.obs.borrowed # <<>>
    /\ Len(loans) = MAX_ACTIVE_LOANS

\* C3: grade never decreases, never exceeds MAX_GRADE, is changed only by
\* try_upgrade, and rises by exactly 1 on a call that returns True and by 0
\* on a call that returns False
GradeSteps ==
    [][/\ grade' >= grade
       /\ grade' <= MAX_GRADE
       /\ (grade' # grade => IsTryUpgrade)
       /\ (IsTryUpgrade =>
             grade' = grade + (IF result'.ret.upgraded THEN 1 ELSE 0))]_vars

\* a try_upgrade call that returned True
UpgradeReturnedTrue ==
    /\ result.op = "try_upgrade"
    /\ result.ret.upgraded
    /\ grade > 1

\* C6: in one simulate_day with expected_customers = E and daily_capacity = C
\* exactly min(E, C) customers are serviced and max(0, E - C) are turned
\* away; each turned-away customer adds one -50 entry to the day's reviews
\* and nothing to revenue, item expenses or the served-customer count
CapacitySplit ==
    result.op = "simulate_day" =>
        LET E == result.obs.expected_customers
            C == result.obs.daily_capacity
            log == result.obs.arrivals
            away == {i \in 1..Len(log) : log[i].turned_away}
            serviced == (1..Len(log)) \ away
        IN /\ Len(log) = E
           /\ Cardinality(serviced) = Min(E, C)
           /\ Cardinality(away) = Max(0, E - C)
           /\ result.obs.angry_leaves_count = Max(0, E - C)
           /\ \A i \in away : /\ log[i].reviews = <<-50>>
                               /\ log[i].revenue = 0
                               /\ log[i].expense_items = 0
                               /\ log[i].served = 0
           /\ result.ret.customers = Min(E, C)
           /\ result.ret.revenue =
                 SumSeq([i \in 1..Len(log) |->
                           IF i \in away THEN 0 ELSE log[i].revenue])
           /\ result.ret.expense_items =
                 SumSeq([i \in 1..Len(log) |->
                           IF i \in away THEN 0 ELSE log[i].expense_items])
           /\ result.ret.today_review =
                 SumSeq([i \in 1..Len(log) |->
                           IF i \in away THEN 0 ELSE SumSeq(log[i].reviews)])
                 - 50 * Cardinality(away)

\* the day of the example: capacity 5, 8 expected customers
FiveServedThreeTurnedAway ==
    /\ result.op = "simulate_day"
    /\ result.obs.daily_capacity = 5
    /\ result.obs.expected_customers = 8
    /\ result.ret.customers = 5
    /\ result.obs.angry_leaves_count = 3

\* C7: in every reachable state cumulative_review is at least 0
ReviewNeverNegative == cumulative_review >= 0

\* a day whose review entries are all negative (everybody was turned away),
\* on a cumulative review that their sum would have taken below 0
AllNegativeDayAtZero ==
    /\ result.op = "simulate_day"
    /\ result.obs.arrivals # <<>>
    /\ \A i \in 1..Len(result.obs.arrivals) :
          \A k \in 1..Len(result.obs.arrivals[i].reviews) :
              result.obs.arrivals[i].reviews[k] < 0
    /\ result.ret.today_review < 0
    /\ cumulative_review = 0

\* C8: when use_loans is False and money is less than the total upgrade
\* cost, try_upgrade returns (False, None) and leaves every field of the
\* state unchanged
NoLoansNoUpgrade ==
    [][(/\ IsTryUpgrade
        /\ ~use_loans
        /\ grade < MAX_GRADE
        /\ money < TotalCost(grade + 1))
           => (ReturnsFalseNone(result') /\ state' = state)]_vars

\* such a call, made with the stars for the next grade but not the money
RefusedForMoneyWithoutLoans ==
    /\ result.op = "try_upgrade"
    /\ ~use_loans
    /\ ~UpgradeBlocked(grade, star_level)
    /\ money < TotalCost(grade + 1)
    /\ ReturnsFalseNone(result)

\* C9: try_upgrade called at MAX_GRADE, or with star_level below
\* required_stars of grade + 1, returns (False, None) and changes nothing in
\* the state; it opens no loan even when use_loans is True
BlockedUpgradeChangesNothing ==
    [][(/\ IsTryUpgrade
        /\ \/ grade >= MAX_GRADE
           \/ star_level < GRADE_CONFIG[grade + 1].required_stars)
           => (ReturnsFalseNone(result') /\ state' = state)]_vars

\* such a call with too few stars, made with use_loans True and less money
\* than the upgrade costs
BlockedWithLoansEnabled ==
    /\ result.op = "try_upgrade"
    /\ use_loans
    /\ grade < MAX_GRADE
    /\ star_level < GRADE_CONFIG[grade + 1].required_stars
    /\ money < TotalCost(grade + 1)
    /\ ReturnsFalseNone(result)
    /\ loans = <<>>

\* the loan of the Loan specification
TheLoan == loans[1]

\* what C4 says of a loan: a call made on a loan that is not paid off
\* strictly decreases remaining_principal + accrued_interest, the sum is 0
\* once term_days calls have been made, and is_paid_off() is true exactly
\* where remaining_principal is 0
LoanRepays(l) ==
    /\ (result.op = "make_payment" /\ ~result.obs.was_paid_off)
          => LoanDebt(l) < result.obs.debt_before
    /\ result.obs.calls >= l.term_days => LoanDebt(l) = 0
    /\ is_paid_off(l) <=> l.remaining_principal = 0

\* C4 as stated: LoanRepays for any principal, daily rate and term_days
AnyLoanRepays == LoanRepays(TheLoan)

\* C4, amended: for any Loan whose principal is at least its term_days and
\* whose term_days is at least 1 (any daily rate), each make_payment() call
\* made with no extra amount strictly decreases remaining_principal +
\* accrued_interest while the loan is not paid off, that sum reaches 0 after
\* at most term_days calls, and is_paid_off() is true exactly in the states
\* where remaining_principal has reached 0
LoanOfFullTermRepays ==
    (TheLoan.principal >= TheLoan.term_days /\ TheLoan.term_days >= 1)
        => LoanRepays(TheLoan)

\* the last of the term_days calls on such a loan, which carried interest
LastInstalmentPaid ==
    /\ result.op = "make_payment"
    /\ TheLoan.principal >= TheLoan.term_days
    /\ TheLoan.term_days > 1
    /\ result.obs.calls = TheLoan.term_days
    /\ ~result.obs.was_paid_off
    /\ result.ret > result.obs.debt_before
    /\ LoanDebt(TheLoan) = 0

\* the call r was a simulate_day that bought the ad "campaign"
BoughtCampaign(r) ==
    /\ r.op = "simulate_day"
    /\ \E i \in 1..Len(r.obs.bought) : r.obs.bought[i].type = "campaign"

\* what an instance of "campaign" bought on an earlier day added to
\* total_ad_boost in the simulate_day r, 0 when there was none
CarriedCampaign(r) ==
    IF r.op = "simulate_day"
       /\ \E i \in 1..Len(r.obs.decayed) : r.obs.decayed[i].type = "campaign"
    THEN LET i == CHOOSE i \in 1..Len(r.obs.decayed) :
                      r.obs.decayed[i].type = "campaign"
         IN r.obs.decayed[i].boost
    ELSE 0

\* C5: an ad of duration 3, decay 5 and boost 15 bought in simulate_day of
\* day N adds 15 to total_ad_boost on day N, 10 on day N+1, 5 on day N+2 and
\* nothing on day N+3, being no longer in active_ads by then
AdLifecycle ==
    [][/\ BoughtCampaign(result') =>
            \E i \in 1..Len(result'.obs.bought) :
                result'.obs.bought[i] = [type |-> "campaign", boost |-> 15]
       /\ BoughtCampaign(result) => CarriedCampaign(result') = 10
       /\ CarriedCampaign(result) = 10 => CarriedCampaign(result') = 5
       /\ (CarriedCampaign(result) = 5 /\ ~BoughtCampaign(result))
            => CarriedCampaign(result') = 0]_vars

\* the sum of the amounts of the loans a try_upgrade call opened
Borrowed(r) == SumSeq([i \in 1..Len(r.obs.borrowed) |-> r.obs.borrowed[i].amount])

\* ls is ls0 followed by fresh loans of the products in taken
ExtendedBy(ls, ls0, taken) ==
    /\ Len(ls) = Len(ls0) + Len(taken)
    /\ \A i \in 1..Len(ls0) : ls[i] = ls0[i]
    /\ \A i \in 1..Len(taken) :
          /\ ls[Len(ls0) + i].loan_type = taken[i].type
          /\ ls[Len(ls0) + i].principal = taken[i].amount
          /\ ls[Len(ls0) + i].remaining_principal = taken[i].amount
          /\ ls[Len(ls0) + i].remaining_days = taken[i].term

\* C11: when try_upgrade borrows and money is still below the total cost
\* afterwards, it returns upgraded = False, the loans opened in the call stay
\* in state.loans and their principal stays added to money, while grade and
\* the staff roster with its ranks are unchanged
FailedFinancingKeepsLoans ==
    [][(/\ IsTryUpgrade
        /\ result'.obs.borrowed # <<>>
        /\ money + Borrowed(result') < result'.obs.total_cost)
          => /\ ~result'.ret.upgraded
             /\ ExtendedBy(loans', loans, result'.obs.borrowed)
             /\ money' = money + Borrowed(result')
             /\ grade' = grade
             /\ staff' = staff]_vars

\* a try_upgrade call at grade 6 that borrowed and still could not pay
FailedAfterBorrowing ==
    /\ result.op = "try_upgrade"
    /\ ~result.ret.upgraded
    /\ result.obs.borrowed # <<>>
    /\ money < result.obs.total_cost
    /\ \E i \in 1..Len(loans) :
          /\ loans[i].loan_type = result.obs.borrowed[1].type
          /\ loans[i].remaining_principal = result.obs.borrowed[1].amount

\* the step is a try_upgrade call that gets as far as the financing loop
IsFinancing ==
    /\ IsTryUpgrade
    /\ use_loans
    /\ ~UpgradeBlocked(grade, star_level)
    /\ money < TotalCost(grade + 1)
    /\ Len(ActiveLoanTypes(loans)) < MAX_ACTIVE_LOANS

\* the loan products a financing loop may borrow: not active, and unlocked
\* by the grade
EligibleProducts(ls, g) ==
    {i \in 1..Len(LOAN_CONFIG) :
        /\ \A k \in 1..Len(ls) :
              is_paid_off(ls[k]) \/ ls[k].loan_type # LOAN_CONFIG[i].name
        /\ LOAN_CONFIG[i].grade_req <= g}

\* C12: financing leaves an eligible product unborrowed only once money,
\* which includes the amounts borrowed in the call, is at least the total
\* cost, or once active plus newly opened loans reach MAX_ACTIVE_LOANS; so a
\* financing attempt that fails has borrowed every eligible product unless
\* the cap was reached
FinancingBorrowsUntilCovered ==
    [][IsFinancing =>
         \/ money + Borrowed(result') >= TotalCost(grade + 1)
         \/ Len(ActiveLoanTypes(loans)) + Len(result'.obs.borrowed)
                >= MAX_ACTIVE_LOANS
         \/ \A i \in EligibleProducts(loans, grade) :
                \E k \in 1..Len(result'.obs.borrowed) :
                    result'.obs.borrowed[k].type = LOAN_CONFIG[i].name]_vars

\* C13: try_upgrade called with enough stars, grade below 7 and money at
\* least the total cost returns (True, None), opens no loan, raises grade by
\* 1 and leaves money = money before - upgrade_cost(next grade) - tool cost
\* * beds(next grade), tool cost being what try_upgrade computes
PaidUpgrade ==
    [][(/\ IsTryUpgrade
        /\ ~UpgradeBlocked(grade, star_level)
        /\ money >= TotalCost(grade + 1))
          => /\ result'.ret.upgraded
             /\ result'.ret.loan_info = NoLoanInfo
             /\ loans' = loans
             /\ grade' = grade + 1
             /\ money' = money - GRADE_CONFIG[grade + 1].upgrade_cost
                                - ToolCost(grade + 1)
                                  * GRADE_CONFIG[grade + 1].beds]_vars

\* an upgrade paid from the salon's own money, at a cost above 0
UpgradePaidInCash ==
    /\ result.op = "try_upgrade"
    /\ result.ret.upgraded
    /\ result.ret.loan_info = NoLoanInfo
    /\ result.obs.total_cost > 0
    /\ loans = <<>>

\* C14: after every try_upgrade call that returns upgraded = True every
\* staff member, old or newly appended, has the rank of the grade-to-rank
\* table for the new grade, and the roster size is the larger of its previous
\* size and staff_slots(new grade), hence at least staff_slots(new grade)
StaffAfterUpgrade ==
    [][(IsTryUpgrade /\ result'.ret.upgraded)
          => /\ \A i \in 1..Len(staff') : staff'[i] = staff_rank_by_grade[grade']
             /\ Len(staff') = Max(Len(staff), GRADE_CONFIG[grade'].staff_slots)
             /\ Len(staff') >= GRADE_CONFIG[grade'].staff_slots]_vars

\* the first upgrade: the founding REGULAR member and four hired students
RosterOfGradeTwo ==
    /\ result.op = "try_upgrade"
    /\ result.ret.upgraded
    /\ grade = 2
    /\ staff = <<STUDENT, STUDENT, STUDENT, STUDENT, STUDENT>>

\* C15: over any sequence of simulate_day and try_upgrade calls the number
\* of staff never shrinks and no staff member's rank is ever lowered (ranks
\* ordered STUDENT < NEWBIE < REGULAR < VETERAN < PRO)
StaffNeverDemoted ==
    [][/\ Len(staff') >= Len(staff)
       /\ \A i \in 1..Len(staff) : staff'[i] >= staff[i]]_vars

\* floor(n / d) for d > 0
Floor(n, d) == n \div d

\* what C16 says of make_payment(amount) returning ret and taking the loan
\* from b to l: floor(remaining_principal * daily_rate) is accrued, the
\* payment is max(minimum payment, amount), it pays the accrued interest
\* first and then the principal, by no more than remaining_principal,
\* remaining_days drops by 1 and ret is interest paid + principal paid
PaysAsStated(b, l, amount, ret) ==
    LET due == b.accrued_interest
                   + Floor(b.remaining_principal * b.daily_rate, 1000)
        minimum == due + (IF b.remaining_days <= 0
                          THEN b.remaining_principal
                          ELSE Floor(b.remaining_principal, b.remaining_days))
        payment == Max(minimum, amount)
        interest_paid == Min(due, payment)
        principal_paid == Min(payment - interest_paid, b.remaining_principal)
    IN /\ payment >= minimum
       /\ l.accrued_interest = due - interest_paid
       /\ l.remaining_principal = b.remaining_principal - principal_paid
       /\ l.remaining_days = b.remaining_days - 1
       /\ ret = interest_paid + principal_paid

\* C16 as stated: make_payment(amount) on any loan that is not paid off
\* accrues floor(remaining_principal * daily_rate), pays max(minimum
\* payment, amount), interest first, then principal up to
\* remaining_principal, takes 1 from remaining_days and returns interest
\* paid + principal paid
AnyPaymentAsStated ==
    (result.op = "make_payment" /\ ~result.obs.was_paid_off)
        => PaysAsStated(result.obs.before, TheLoan, result.obs.amount,
                        result.ret)

\* C16, amended: the same for a loan whose daily_rate is not negative
PaymentAsStated ==
    (/\ result.op = "make_payment"
     /\ ~result.obs.was_paid_off
     /\ TheLoan.daily_rate >= 0)
        => PaysAsStated(result.obs.before, TheLoan, result.obs.amount,
                        result.ret)

\* an early repayment above the minimum on a loan that carried interest and
\* is still owed afterwards
EarlyRepaymentMade ==
    /\ result.op = "make_payment"
    /\ ~result.obs.was_paid_off
    /\ TheLoan.daily_rate > 0
    /\ result.obs.amount > get_minimum_payment(
                               accrue_daily_interest(result.obs.before))
    /\ DailyInterest(result.obs.before) > 0
    /\ result.ret = result.obs.amount
    /\ TheLoan.remaining_principal > 0

\* C17: make_payment on a loan that is already paid off returns 0 and
\* changes none of remaining_principal, accrued_interest and remaining_days
PaidOffLoanUntouched ==
    (result.op = "make_payment" /\ result.obs.was_paid_off)
        => /\ result.ret = 0
           /\ TheLoan.remaining_principal
                  = result.obs.before.remaining_principal
           /\ TheLoan.accrued_interest = result.obs.before.accrued_interest
           /\ TheLoan.remaining_days = result.obs.before.remaining_days

\* a call with an amount made after the loan was repaid over its term
PaidAgainAfterRepayment ==
    /\ result.op = "make_payment"
    /\ result.obs.was_paid_off
    /\ TheLoan.principal > 0
    /\ result.obs.calls > TheLoan.term_days
    /\ result.obs.amount > 0

IsSimulateDay == result'.op = "simulate_day" /\ day' = day + 1

\* the ad after one day's decay, by the catalog in use
AfterOneDay(ad) ==
    [type |-> ad.type,
     remaining |-> ad.remaining - 1,
     current_boost |-> ad.current_boost - AdEntry(ad_config, ad.type).decay]

\* C18: between operations active_ads holds at most 3 advertisements, no two
\* of the same type; in simulate_day an ad is removed exactly when its
\* remaining days or its current boost drops to 0 or below on that day, and
\* is carried over with the decayed values otherwise
AdsBoundedAndExpire ==
    /\ [](/\ Len(active_ads) <= 3
          /\ \A i, j \in 1..Len(active_ads) :
                 active_ads[i].type = active_ads[j].type => i = j)
    /\ [][IsSimulateDay =>
             \A i \in 1..Len(active_ads) :
                 LET d == AfterOneDay(active_ads[i])
                 IN (d.remaining <= 0 \/ d.current_boost <= 0)
                       <=> ~(\E j \in 1..Len(active_ads') : active_ads'[j] = d)
         ]_vars

\* a day on which an ad ran out and was removed while others stayed
AdRanOut ==
    /\ result.op = "simulate_day"
    /\ Len(active_ads) >= 2
    /\ \E i \in 1..Len(result.obs.decayed) :
           \A j \in 1..Len(active_ads) :
               active_ads[j].type = result.obs.decayed[i].type
                  => active_ads[j].remaining
                        = AdEntry(ad_config, active_ads[j].type).duration

\* C19: between operations star_level is the highest star of
\* REVIEW_THRESHOLDS whose threshold is at most cumulative_review, and lies
\* in 1..30
StarFromReview ==
    /\ star_level \in 1..30
    /\ REVIEW_THRESHOLDS[star_level] <= cumulative_review
    /\ \A st \in 1..Len(REVIEW_THRESHOLDS) :
           REVIEW_THRESHOLDS[st] <= cumulative_review => st <= star_level

\* a day whose reviews took cumulative_review over the next threshold
StarGained ==
    /\ result.op = "simulate_day"
    /\ result.ret.today_review > 0
    /\ result.ret.review_total = cumulative_review
    /\ star_level > 1
    /\ cumulative_review - result.ret.today_review
          < REVIEW_THRESHOLDS[star_level]

\* C20: the cost of every reception or register item drawn for a serviced
\* customer is part of the day's expenses: the field expenses of the day's
\* result, the amount subtracted from money, equals expense_ad +
\* expense_rent + expense_staff + expense_loan + expense_items
ExpensesIncludeItems ==
    result.op = "simulate_day"
        => result.ret.expenses
              = result.ret.expense_ad + result.ret.expense_rent
                + result.ret.expense_staff + result.ret.expense_loan
                + result.ret.expense_items

\* C21: each simulate_day changes money by the day's revenue minus the day's
\* expenses, adds the day's revenue, expenses and served customers to the
\* running totals and increments day by 1; the returned record has the day
\* number before the increment, net = revenue - expenses and money equal to
\* the money after the call
DaySettlement ==
    [][result'.op = "simulate_day"
         => LET r == result'.ret
            IN /\ money' = money + r.revenue - r.expenses
               /\ total_revenue' = total_revenue + r.revenue
               /\ total_expenses' = total_expenses + r.expenses
               /\ customers_served' = customers_served + r.customers
               /\ day' = day + 1
               /\ r.day = day
               /\ r.net = r.revenue - r.expenses
               /\ r.money = money']_vars

\* a day that served customers and still closed with a loss
LossMakingDay ==
    /\ result.op = "simulate_day"
    /\ result.ret.customers > 0
    /\ result.ret.revenue > 0
    /\ result.ret.net < 0
    /\ money = result.ret.money

\* C22: simulate_day charges rent exactly on the days whose day counter,
\* before the increment, is divisible by 3, in the amount of the current
\* grade's rent, and charges 0 on every other day: days 3, 6, 9, ...
RentEveryThirdDay ==
    [][result'.op = "simulate_day"
         => /\ result'.ret.expense_rent
                  = (IF day % 3 = 0 THEN GRADE_CONFIG[grade].rent ELSE 0)
            /\ result'.ret.expense_rent > 0
                  <=> \E k \in 1..day : day = 3 * k]_vars

\* the third day of a new salon, the first with rent
FirstRentPaid ==
    /\ result.op = "simulate_day"
    /\ result.ret.day = 3
    /\ result.ret.grade = 1
    /\ result.ret.expense_rent = 100
    /\ result.ret.expenses >= 100

\* the ad with catalog entry c can be bought with money mny at star level
\* stars while the ads of the given types are active
Purchasable(c, mny, stars, types) ==
    /\ c.name # "none"
    /\ c.cost = 0 \/ 5 * c.cost <= mny
    /\ c.star_req <= stars
    /\ c.name \notin types

\* C23: in the ad-purchasing loop of simulate_day every ad chosen is
\* affordable (cost = 0 or cost <= 0.2 * money), unlocked and not already
\* active, and the loop stops buying only when 3 ads are active, when the
\* 0.9 attraction-ratio stop rule applies, or when no affordable, unlocked,
\* not-already-active ad remains
AdPurchasesAsStated ==
    [][result'.op = "simulate_day"
         => LET bought == result'.obs.bought
                carried == Len(active_ads') - Len(bought)
                ActiveBefore(k) ==
                    {active_ads'[i].type : i \in 1..(carried + k - 1)}
            IN /\ \A k \in 1..Len(bought) :
                      /\ active_ads'[carried + k].type = bought[k].type
                      /\ Purchasable(AdEntry(ad_config, bought[k].type),
                                     money, star_level, ActiveBefore(k))
               /\ \/ Len(active_ads') = 3
                  \/ /\ 10 * attraction_level
                            >= 9 * GRADE_CONFIG[grade].attraction_cap
                     /\ Len(active_ads') >= 1
                  \/ ~\E i \in 1..Len(ad_config) :
                         Purchasable(ad_config[i], money, star_level,
                                     AdTypes(active_ads'))]_vars

\* the feedback update of the simulate_day step, the change being rounded by
\* Round(numerator, denominator)
FeedbackUpdate(Round(_, _)) ==
    LET r == result'.ret
        cap == GRADE_CONFIG[grade].attraction_cap
        change == IF r.customers = 0 THEN 0
                  ELSE Round(r.today_review * grade, 5 * r.customers)
    IN attraction_level' = Max(10, Min(attraction_level + change, cap))

AbsentKeyRejected ==
    (/\ result.op \in {"get_success_rate", "tier_to_wealth",
                       "staff_rank_by_grade"}
     /\ ~result.obs.present)
        => result.ret.rejected

\* the calls run can still make: two for each day left of max_days, less
\* the simulate_day already made in the current iteration
CallsLeft ==
    2 * (horizon - day) + (IF result.op = "simulate_day" THEN 1 ELSE 0)

LoanInfoTellsLoansOpened ==
    [][IsTryUpgrade
         => LET info == result'.ret.loan_info
                opened == Len(loans') - Len(loans)
                paid == IF result'.ret.upgraded
                        THEN result'.obs.total_cost ELSE 0
            IN /\ info.none <=> opened = 0
               /\ ~info.none
                    => /\ Len(info.loans) = opened
                       /\ \A k \in 1..opened :
                              LET l == loans'[Len(loans) + k]
                              IN /\ info.loans[k].type = l.loan_type
                                 /\ info.loans[k].amount = l.principal
                                 /\ info.loans[k].term = l.term_days
                       /\ info.total
                             = SumSeq([k \in 1..opened |->
                                          info.loans[k].amount])
                       /\ money' = money + info.total - paid]_vars

\* the loans of ls that have the type of l
OfType(ls, l) == {j \in 1..Len(ls) : ls[j].loan_type = l.loan_type}

\* C28: every simulate_day calls make_payment() once, with no extra amount,
\* on every loan of state.loans and removes the loans that are paid off
\* afterwards; so a loan opened by try_upgrade with term_days T is untouched
\* until the next simulate_day, loses one remaining day in each simulate_day,
\* is removed in the T-th, the one that finds remaining_days = 1, and the
\* principal parts of its payments add up to its principal
LoansServicedDaily ==
    /\ [][result'.op = "simulate_day"
            => /\ Len(result'.obs.payments) = Len(loans)
               /\ \A i \in 1..Len(loans) :
                      LET l == loans[i]
                          part == result'.obs.payments[i] - DailyInterest(l)
                          kept == OfType(loans', l)
                      IN /\ part = l.remaining_principal \div l.remaining_days
                         /\ kept = {} <=> l.remaining_days = 1
                         /\ kept = {} => part = l.remaining_principal
                         /\ \A j \in kept :
                               /\ loans'[j].remaining_days
                                     = l.remaining_days - 1
                               /\ loans'[j].remaining_principal
                                     = l.remaining_principal - part
               /\ \A j \in 1..Len(loans') : OfType(loans, loans'[j]) # {}]_vars
    /\ [][IsTryUpgrade
            => /\ \A i \in 1..Len(loans) : loans'[i] = loans[i]
               /\ \A j \in (Len(loans) + 1)..Len(loans') :
                     /\ loans'[j].term_days >= 1
                     /\ loans'[j].remaining_days = loans'[j].term_days
                     /\ loans'[j].remaining_principal = loans'[j].principal]_vars

\* the day of a loan's last instalment: it was paid and the loan is gone
LastInstalmentOfRun ==
    /\ result.op = "simulate_day"
    /\ Len(result.obs.payments) = 1
    /\ result.obs.payments[1] > 200000
    /\ loans = <<>>

\* remaining_days is 0 and principal is still owed
BalloonDue(l) == l.remaining_days = 0 /\ l.remaining_principal > 0

\* C29 as stated: a loan with term_days >= 1 gets, by make_payment calls,
\* into a state in which remaining_days is 0 and remaining_principal is
\* greater than 0
BalloonReached ==
    <>(/\ result.op = "make_payment"
       /\ TheLoan.term_days >= 1
       /\ BalloonDue(TheLoan))

\* C29, amended: no loan with term_days >= 1 gets there: whenever
\* make_payment calls have brought remaining_days to 0, remaining_principal
\* is 0 as well, the call that found remaining_days = 1 having paid all of it
NoBalloonLeft ==
    (/\ result.op = "make_payment"
     /\ TheLoan.term_days >= 1
     /\ TheLoan.remaining_days = 0)
        => /\ TheLoan.remaining_principal = 0
           /\ (~result.obs.was_paid_off /\ result.obs.before.remaining_days = 1)
                 => result.ret = result.obs.before.remaining_principal
                                 + result.obs.before.accrued_interest
                                 + DailyInterest(result.obs.before)

\* the last day of a loan that was repaid by minimum payments only: the call
\* paid what was left of the principal, with interest
PaidUpOnLastDay ==
    /\ result.op = "make_payment"
    /\ ~result.obs.was_paid_off
    /\ result.obs.amount = 0
    /\ TheLoan.term_days > 1
    /\ TheLoan.daily_rate > 0
    /\ result.obs.before.remaining_days = 1
    /\ result.obs.before.remaining_principal > 1
    /\ TheLoan.remaining_days = 0
    /\ TheLoan.remaining_principal = 0

\* C30: between operations every loan of state.loans has 0 <
\* remaining_principal <= principal, 0 < remaining_days <= term_days and
\* accrued_interest = 0: no balance is negative, and the interest accrued in
\* a make_payment call is paid in full within that call
LoanBalancesSound ==
    \A i \in 1..Len(loans) :
        /\ 0 < loans[i].remaining_principal
        /\ loans[i].remaining_principal <= loans[i].principal
        /\ 0 < loans[i].remaining_days
        /\ loans[i].remaining_days <= loans[i].term_days
        /\ loans[i].accrued_interest = 0

\* a day on which interest was paid on a loan that is still running
InterestPaidOnRunningLoan ==
    /\ result.op = "simulate_day"
    /\ \E i \in 1..Len(loans) :
           /\ loans[i].remaining_principal < loans[i].principal
           /\ loans[i].remaining_days < loans[i].term_days
    /\ Len(result.obs.payments) = Len(loans)
    /\ \E i \in 1..Len(loans) :
           result.obs.payments[i]
              > loans[i].remaining_principal \div loans[i].remaining_days

\* the catalog entry of the loan product named name
LoanProduct(name) ==
    LOAN_CONFIG[CHOOSE i \in 1..Len(LOAN_CONFIG) : LOAN_CONFIG[i].name = name]

\* C31: within one try_upgrade call loans are opened in order of descending
\* max_amount, each for the product's full max_amount with the product's
\* daily_rate and term_days; if the call opens product P, every product with
\* a larger max_amount that was eligible (not already active, grade_req <=
\* current grade) was opened earlier in the same call
LoansOpenedLargestFirst ==
    [][IsTryUpgrade
         => LET n0 == Len(loans)
                opened == Len(loans') - n0
                New(k) == loans'[n0 + k]
            IN /\ opened >= 0
               /\ \A k \in 1..opened :
                     LET p == LoanProduct(New(k).loan_type)
                     IN /\ New(k).principal = p.max_amount
                        /\ New(k).daily_rate = p.daily_rate
                        /\ New(k).term_days = p.term_days
                        /\ \A m \in 1..(k - 1) :
                               New(m).principal > p.max_amount
                        /\ \A i \in EligibleProducts(loans, grade) :
                               LOAN_CONFIG[i].max_amount > p.max_amount
                                 => \E m \in 1..(k - 1) :
                                       New(m).loan_type = LOAN_CONFIG[i].name
           ]_vars

\* a call that opened two loans while a larger product was still active
TwoLoansBelowActiveOne ==
    /\ result.op = "try_upgrade"
    /\ Len(result.obs.borrowed) = 2
    /\ Len(loans) = 3
    /\ loans[1].principal > loans[2].principal
    /\ loans[2].principal > loans[3].principal
    /\ loans[2].loan_type = result.obs.borrowed[1].type
    /\ loans[3].loan_type = result.obs.borrowed[2].type

\* the cost of the first k ads bought in the simulate_day r
SpentOnAds(r, k) ==
    SumSeq([i \in 1..k |-> AdEntry(ad_config, r.obs.bought[i].type).cost])

\* C32: in the ad-purchasing loop of one simulate_day the cost of each ad
\* bought is taken off money before the next candidate's affordability is
\* checked: the second and third purchase of a day are tested against the
\* balance reduced by the earlier purchases of that day
AdsTestedAgainstReducedMoney ==
    [][result'.op = "simulate_day"
         => \A k \in 1..Len(result'.obs.bought) :
               LET c == AdEntry(ad_config, result'.obs.bought[k].type).cost
               IN c = 0 \/ 5 * c <= money - SpentOnAds(result', k - 1)]_vars

\* the number of active ads that survive the decay step of the next day
Survivors(ads) ==
    Cardinality({i \in 1..Len(ads) :
                    LET d == AfterOneDay(ads[i])
                    IN d.remaining > 0 /\ d.current_boost > 0})

\* C33: on a day that starts with attraction_level / attraction_cap >= 0.9
\* at most one ad is bought, and only if no ad is active after the decay
\* step; on a day on which 3 ads survive the decay step no ad is bought
AdsHeldBackNearCap ==
    [][IsSimulateDay
         => LET nb == Len(result'.obs.bought)
                surviving == Survivors(active_ads)
            IN /\ Len(active_ads') = surviving + nb
               /\ 10 * attraction_level >= 9 * result'.ret.attraction_cap
                     => nb <= 1 /\ (nb = 1 => surviving = 0)
               /\ surviving = 3 => nb = 0]_vars

\* a day that started at 90% of the cap or more with no ad left after the
\* decay step, on which exactly one ad was bought (the level was not raised
\* to the floor of 10, so the level before the day is at least the level
\* after it minus the change)
OneAdBoughtNearCap ==
    /\ result.op = "simulate_day"
    /\ 10 * (attraction_level - result.obs.attraction_change)
          >= 9 * result.ret.attraction_cap
    /\ attraction_level > 10
    /\ Len(result.obs.bought) = 1
    /\ Len(active_ads) = 1

\* C34: simulate_day and try_upgrade touch disjoint parts of the state
\* apart from money: simulate_day never changes grade, the staff roster or a
\* staff rank and never appends a loan; try_upgrade never changes day,
\* cumulative_review, star_level, attraction_level, active_ads or the running
\* revenue, expense and customer totals
DisjointFootprints ==
    [][/\ IsSimulateDay
            => /\ grade' = grade
               /\ staff' = staff
               /\ Len(loans') <= Len(loans)
               /\ \A j \in 1..Len(loans') :
                      \E i \in j..Len(loans) :
                          /\ loans[i].loan_type = loans'[j].loan_type
                          /\ loans[i].principal = loans'[j].principal
       /\ IsTryUpgrade
            => UNCHANGED <<day, cumulative_review, star_level,
                           attraction_level, active_ads, total_revenue,
                           total_expenses, customers_served>>]_vars

\* an upgrade financed by a loan, made while ads were running and customers
\* had been served
FinancedUpgradeAfterTrading ==
    /\ result.op = "try_upgrade"
    /\ result.ret.upgraded
    /\ Len(result.obs.borrowed) >= 1
    /\ Len(active_ads) >= 1
    /\ customers_served > 0
    /\ total_revenue > 0

\* the ranks of CUSTOMER_RANKS open to a salon of grade g with stars stars
OpenRanks(g, stars) ==
    {i \in 1..Len(CUSTOMER_RANKS) :
        /\ CUSTOMER_RANKS[i][5] <= stars
        /\ TIER_GRADE_REQUIREMENT[CUSTOMER_RANKS[i][1]] <= g}

\* C35: every customer serviced during a day has the highest rank of
\* CUSTOMER_RANKS whose star requirement is at most the star_level at the
\* start of the day and whose tier's grade requirement is at most the grade;
\* no serviced customer is of a tier above the grade, and the stars gained
\* or lost on the day do not change the rank of the day's customers
ServedAtHighestOpenRank ==
    [][IsSimulateDay
         => \A k \in 1..Len(result'.obs.arrivals) :
               LET a == result'.obs.arrivals[k]
                   open == OpenRanks(grade, star_level)
               IN ~a.turned_away
                    => /\ \E i \in open :
                             /\ CUSTOMER_RANKS[i][5] = a.star_req
                             /\ CUSTOMER_RANKS[i][1] = a.tier
                             /\ \A o \in open :
                                    CUSTOMER_RANKS[o][5] <= a.star_req
                       /\ TIER_GRADE_REQUIREMENT[a.tier] <= grade]_vars

\* a day with a customer of the last rank of the tier of the grade, a rank
\* below the one the stars alone would open
RankHeldBackByGrade ==
    /\ result.op = "simulate_day"
    /\ \E k \in 1..Len(result.obs.arrivals) :
           LET a == result.obs.arrivals[k]
           IN /\ ~a.turned_away
              /\ TIER_GRADE_REQUIREMENT[a.tier] = grade
              /\ a.star_req = 6 * grade
              /\ a.star_req < star_level

\* the number of the day's arrivals that were serviced, and turned away
ServedCount(arrivals) ==
    Cardinality({k \in 1..Len(arrivals) : ~arrivals[k].turned_away})

TurnedAwayCount(arrivals) ==
    Cardinality({k \in 1..Len(arrivals) : arrivals[k].turned_away})

\* C36: in every simulate_day the serviced customers plus the customers
\* turned away are expected_customers, and expected_customers is at most
\* max_customers of the grade, the effective attraction being clamped to
\* 10..cap before it is used
ArrivalsWithinMaxCustomers ==
    [][IsSimulateDay
         => LET o == result'.obs
                r == result'.ret
            IN /\ ServedCount(o.arrivals) + TurnedAwayCount(o.arrivals)
                     = o.expected_customers
               /\ r.customers = ServedCount(o.arrivals)
               /\ o.angry_leaves_count = TurnedAwayCount(o.arrivals)
               /\ r.max_customers = get_max_customers(grade)
               /\ o.expected_customers >= 0
               /\ o.expected_customers <= r.max_customers]_vars

\* a day with ads running on which the effective attraction was the cap:
\* as many customers as max_customers arrived, and all were served
FullHouse ==
    /\ result.op = "simulate_day"
    /\ result.obs.expected_customers = result.ret.max_customers
    /\ result.ret.ad_boost > 3
    /\ result.ret.customers = result.ret.max_customers
    /\ result.ret.customers > 0

MoneyKeptByTryUpgrade ==
    [][/\ IsTryUpgrade
            => LET b == result'.obs.borrowed
                   opened == SumSeq([i \in 1..Len(b) |-> b[i].amount])
               IN /\ result'.ret.upgraded => money' >= 0
                  /\ ~result'.ret.upgraded
                        => /\ money' = money + opened
                           /\ money' >= money
                           /\ Len(loans') = Len(loans) + Len(b)
                  /\ money >= 0 => money' >= 0
       /\ (money >= 0 /\ money' < 0) => IsSimulateDay]_vars

\* a refused call that left more money than it found: it opened a loan
RefusedWithMoreMoney ==
    /\ result.op = "try_upgrade"
    /\ ~result.ret.upgraded
    /\ Len(result.obs.borrowed) >= 1
    /\ result.obs.borrowed[1].amount > 0
    /\ money >= result.obs.borrowed[1].amount

=============================================================================
